---------------------------- MODULE Spec2Model ----------------------------
(***************************************************************************)
(* A state-machine model of the nes_oxide emulator core: the 6502 CPU      *)
(* interpreter (src/src/cpu), the memory bus (src/src/cpu/bus.rs) and the  *)
(* PPU register/timing model (src/src/ppu).                                *)
(*                                                                         *)
(* Memories (ram, vram, palette_table, oam_data, prg_rom, chr_rom) are     *)
(* zero-initialised byte vectors in the source; they are held here as      *)
(* functions from the indices that hold a non-zero byte to that byte, and  *)
(* every other index reads 0.                                              *)
(***************************************************************************)
EXTENDS Integers, Sequences, FiniteSets, TLC

VARIABLES
    cpu,        \* Cpu registers: cycle, pc, sp, r_a, r_x, r_y, status
    controller, \* Cpu.controller: step_mode, pause, quit
    ram,        \* Bus.ram (2 KiB)
    cartridge,  \* Bus.cartridge: prg_rom, prg_len, chr_rom, mirroring
    ppu,        \* Bus.ppu
    env,        \* the build and the process: overflow_checks, panicked
    last,       \* the last operation performed, its argument and its result
    data_ops,   \* the number of $2007 and $2004 accesses the host has made
    joypad,     \* the Joypad: strobe, button_index, buttons
    frame       \* Frame.data, the non-zero bytes by index

vars == <<cpu, controller, ram, cartridge, ppu, env, last, data_ops, joypad, frame>>

----------------------------------------------------------------------------
(* Fixed-width integer helpers.                                            *)

Pow2(k) == 2 ^ k

U8(x) == x % 256

U16(x) == x % 65536

Bit(x, k) == (x \div Pow2(k)) % 2

RECURSIVE BitAndN(_, _, _)
BitAndN(a, b, n) ==
    IF n = 0 THEN 0
    ELSE (a % 2) * (b % 2) + 2 * BitAndN(a \div 2, b \div 2, n - 1)

BitAnd(a, b) == BitAndN(a, b, 16)

BitOr(a, b) == a + b - BitAnd(a, b)

BitXor(a, b) == a + b - 2 * BitAnd(a, b)

\* bitflags set(flag, on) on an 8-bit register; flag is a single-bit mask
SetFlag(reg, flag, on) ==
    IF on THEN BitOr(reg, flag) ELSE reg - BitAnd(reg, flag)

HasFlag(reg, flag) == BitAnd(reg, flag) # 0

\* a zero-initialised byte vector: read and write of one index
Rd(mem, i) == IF i \in DOMAIN mem THEN mem[i] ELSE 0

Wr(mem, i, v) ==
    IF v = 0
    THEN [j \in DOMAIN mem \ {i} |-> mem[j]]
    ELSE [j \in DOMAIN mem \cup {i} |-> IF j = i THEN v ELSE mem[j]]

EmptyMem == [j \in {} |-> 0]

----------------------------------------------------------------------------
(* Bit masks of the registers.                                             *)

\* CpuStatusRegister
FlagC == 1
FlagZ == 2
FlagI == 4
FlagD == 8
FlagB == 16
FlagU == 32
FlagV == 64
FlagN == 128

\* ControlRegister
VRAM_ADD_INCREMENT == 4
GENERATE_NMI == 128

\* StatusRegister
SPRITE_ZERO_HIT == 64
VBLANK_STARTED == 128

\* PPU memory map (ppu/mod.rs)
CHR_ROM_BEGIN == 0
CHR_ROM_END == 511
VRAM_BEGIN == 8192
VRAM_END == 12287
PALETTE_BEGIN == 16128
PALETTE_END == 16383

\* Bus memory map (cpu/bus.rs)
RAM_BEGIN == 0
RAM_END == 8191
PPU_CTRL == 8192
PPU_MASK == 8193
PPU_STATUS == 8194
PPU_OAM_ADDR == 8195
PPU_OAM_DATA == 8196
PPU_SCROLL == 8197
PPU_MAP_ADDR == 8198
PPU_MAP_DATA == 8199
PPU_REGISTER_END == 16383
PPU_OAM_DMA == 16404
PRG_ROM_BEGIN == 32768
PRG_ROM_END == 65535

----------------------------------------------------------------------------
(* The machine: the values the operations below transform.  An operation   *)
(* that panics (an out-of-range index, or an integer overflow in a build   *)
(* with overflow checks) sets panicked; nothing runs after a panic.        *)

Machine ==
    [cpu |-> cpu, controller |-> controller, ram |-> ram,
     cartridge |-> cartridge, ppu |-> ppu, env |-> env]

Panic(m) == [m EXCEPT !.env.panicked = TRUE]

\* the result of an operation that returns a byte or a word
Ret(m, v) == [m |-> m, v |-> v]

----------------------------------------------------------------------------
(* ppu/registers.rs                                                        *)

AddressRegisterDefault == [value0 |-> 0, value1 |-> 0, high_byte |-> TRUE]

AddrGet(a) == a.value0 * 256 + a.value1

AddrSet(a, value) ==
    [a EXCEPT !.value0 = U8(value \div 256), !.value1 = value % 256]

AddrMirrorDown_Off(a) == a

\* mirror down addr above 0x3fff
AddrMirrorDown(a) ==
    IF AddrGet(a) > 16383 THEN AddrSet(a, BitAnd(AddrGet(a), 16383)) ELSE a

AddrUpdate_LowFirst(a, data) ==
    LET w == IF a.high_byte THEN [a EXCEPT !.value1 = data]
                            ELSE [a EXCEPT !.value0 = data]
        k == AddrMirrorDown(w)
    IN  [k EXCEPT !.high_byte = ~a.high_byte]

AddrUpdate(a, data) ==
    LET w == IF a.high_byte THEN [a EXCEPT !.value0 = data]
                            ELSE [a EXCEPT !.value1 = data]
        k == AddrMirrorDown(w)
    IN  [k EXCEPT !.high_byte = ~a.high_byte]

AddrIncrement_NoCarry(a, value) ==
    AddrMirrorDown([a EXCEPT !.value1 = U8(a.value1 + value)])

AddrIncrement(a, value) ==
    LET lo == a.value1
        n1 == U8(a.value1 + value)
        w  == [a EXCEPT !.value1 = n1,
                        !.value0 = IF lo > n1 THEN U8(a.value0 + 1) ELSE a.value0]
    IN  AddrMirrorDown(w)

vram_addr_increment(ctrl) ==
    IF HasFlag(ctrl, VRAM_ADD_INCREMENT) THEN 32 ELSE 1

ScrollRegisterDefault == [x |-> 0, y |-> 0, latch |-> FALSE]

ScrollUpdate(s, data) ==
    [s EXCEPT !.x = IF ~s.latch THEN data ELSE s.x,
              !.y = IF ~s.latch THEN s.y ELSE data,
              !.latch = ~s.latch]

----------------------------------------------------------------------------
(* ppu/mod.rs                                                              *)

None == <<>>

Some(x) == <<x>>

PpuNew(chr_rom, mirroring) ==
    [chr_rom |-> chr_rom, palette_table |-> EmptyMem, vram |-> EmptyMem,
     oam_data |-> EmptyMem, mirroring |-> mirroring, data_buffer |-> 0,
     addr |-> AddressRegisterDefault, ctrl |-> 0, mask |-> 0, status |-> 0,
     scroll |-> ScrollRegisterDefault, oam_addr |-> 0, cycle |-> 0,
     scanline |-> 0, nmi_interrupt |-> None]

\* Ppu::step with VBlank started one scanline early
PpuStepFn_EarlyVBlank(p, cycles) ==
    LET c1 == p.cycle + cycles
    IN  IF c1 >= 341
        THEN LET sl == p.scanline + 1
                 p1 == [p EXCEPT !.cycle = c1 - 341, !.scanline = sl]
                 p2 == IF sl = 240
                       THEN [p1 EXCEPT
                               !.status = SetFlag(SetFlag(p1.status, VBLANK_STARTED, TRUE),
                                                  SPRITE_ZERO_HIT, FALSE),
                               !.nmi_interrupt =
                                   IF HasFlag(p1.ctrl, GENERATE_NMI) THEN Some(1)
                                   ELSE p1.nmi_interrupt]
                       ELSE p1
             IN  IF p2.scanline >= 262
                 THEN [p |-> [p2 EXCEPT
                                !.scanline = 0,
                                !.nmi_interrupt = None,
                                !.status = SetFlag(SetFlag(p2.status, VBLANK_STARTED, FALSE),
                                                   SPRITE_ZERO_HIT, TRUE)],
                       v |-> TRUE]
                 ELSE [p |-> p2, v |-> FALSE]
        ELSE [p |-> [p EXCEPT !.cycle = c1], v |-> FALSE]

\* Ppu::step that keeps a latched NMI across the end of the frame
PpuStepFn_KeepNmi(p, cycles) ==
    LET c1 == p.cycle + cycles
    IN  IF c1 >= 341
        THEN LET sl == p.scanline + 1
                 p1 == [p EXCEPT !.cycle = c1 - 341, !.scanline = sl]
                 p2 == IF sl = 241
                       THEN [p1 EXCEPT
                               !.status = SetFlag(SetFlag(p1.status, VBLANK_STARTED, TRUE),
                                                  SPRITE_ZERO_HIT, FALSE),
                               !.nmi_interrupt =
                                   IF HasFlag(p1.ctrl, GENERATE_NMI) THEN Some(1)
                                   ELSE p1.nmi_interrupt]
                       ELSE p1
             IN  IF p2.scanline >= 262
                 THEN [p |-> [p2 EXCEPT
                                !.scanline = 0,
                                !.status = SetFlag(SetFlag(p2.status, VBLANK_STARTED, FALSE),
                                                   SPRITE_ZERO_HIT, TRUE)],
                       v |-> TRUE]
                 ELSE [p |-> p2, v |-> FALSE]
        ELSE [p |-> [p EXCEPT !.cycle = c1], v |-> FALSE]

\* Ppu::step with the scanline ending one dot late
PpuStepFn_LateWrap(p, cycles) ==
    LET c1 == p.cycle + cycles
    IN  IF c1 > 341
        THEN LET sl == p.scanline + 1
                 p1 == [p EXCEPT !.cycle = c1 - 341, !.scanline = sl]
                 p2 == IF sl = 241
                       THEN [p1 EXCEPT
                               !.status = SetFlag(SetFlag(p1.status, VBLANK_STARTED, TRUE),
                                                  SPRITE_ZERO_HIT, FALSE),
                               !.nmi_interrupt =
                                   IF HasFlag(p1.ctrl, GENERATE_NMI) THEN Some(1)
                                   ELSE p1.nmi_interrupt]
                       ELSE p1
             IN  IF p2.scanline >= 262
                 THEN [p |-> [p2 EXCEPT
                                !.scanline = 0,
                                !.nmi_interrupt = None,
                                !.status = SetFlag(SetFlag(p2.status, VBLANK_STARTED, FALSE),
                                                   SPRITE_ZERO_HIT, TRUE)],
                       v |-> TRUE]
                 ELSE [p |-> p2, v |-> FALSE]
        ELSE [p |-> [p EXCEPT !.cycle = c1], v |-> FALSE]

\* Ppu::step on the ppu record alone; returns the record and the bool result
PpuStepFn(p, cycles) ==
    LET c1 == p.cycle + cycles
    IN  IF c1 >= 341
        THEN LET sl == p.scanline + 1
                 p1 == [p EXCEPT !.cycle = c1 - 341, !.scanline = sl]
                 p2 == IF sl = 241
                       THEN [p1 EXCEPT
                               !.status = SetFlag(SetFlag(p1.status, VBLANK_STARTED, TRUE),
                                                  SPRITE_ZERO_HIT, FALSE),
                               !.nmi_interrupt =
                                   IF HasFlag(p1.ctrl, GENERATE_NMI) THEN Some(1)
                                   ELSE p1.nmi_interrupt]
                       ELSE p1
             IN  IF p2.scanline >= 262
                 THEN [p |-> [p2 EXCEPT
                                !.scanline = 0,
                                !.nmi_interrupt = None,
                                !.status = SetFlag(SetFlag(p2.status, VBLANK_STARTED, FALSE),
                                                   SPRITE_ZERO_HIT, TRUE)],
                       v |-> TRUE]
                 ELSE [p |-> p2, v |-> FALSE]
        ELSE [p |-> [p EXCEPT !.cycle = c1], v |-> FALSE]

write_addr(p, value) == [p EXCEPT !.addr = AddrUpdate(p.addr, value)]

\* write_ctrl that latches the NMI outside VBlank as well
write_ctrl_AnyRise(p, value) ==
    LET nmi_status == HasFlag(p.ctrl, GENERATE_NMI)
        p1 == [p EXCEPT !.ctrl = value]
    IN  IF ~nmi_status /\ HasFlag(p1.ctrl, GENERATE_NMI)
        THEN [p1 EXCEPT !.nmi_interrupt = Some(1)]
        ELSE p1

write_ctrl(p, value) ==
    LET nmi_status == HasFlag(p.ctrl, GENERATE_NMI)
        p1 == [p EXCEPT !.ctrl = value]
    IN  IF ~nmi_status /\ HasFlag(p1.ctrl, GENERATE_NMI) /\ HasFlag(p1.status, VBLANK_STARTED)
        THEN [p1 EXCEPT !.nmi_interrupt = Some(1)]
        ELSE p1

write_mask(p, value) == [p EXCEPT !.mask = value]

\* read_status that forgets the scroll latch
read_status_KeepScrollLatch(p) ==
    [p |-> [p EXCEPT !.status = SetFlag(p.status, VBLANK_STARTED, FALSE),
                     !.addr.high_byte = TRUE],
     v |-> p.status]

\* returns the ppu record and the byte read
read_status(p) ==
    [p |-> [p EXCEPT !.status = SetFlag(p.status, VBLANK_STARTED, FALSE),
                     !.scroll.latch = FALSE,
                     !.addr.high_byte = TRUE],
     v |-> p.status]

write_oam_addr(p, value) == [p EXCEPT !.oam_addr = value]

write_oam_data(p, value) ==
    [p EXCEPT !.oam_data = Wr(p.oam_data, p.oam_addr, value),
              !.oam_addr = U8(p.oam_addr + 1)]

read_oam_data(p) == Rd(p.oam_data, p.oam_addr)

write_scroll(p, value) == [p EXCEPT !.scroll = ScrollUpdate(p.scroll, value)]

\* palette_mirror without the fold of 0x10/0x14/0x18/0x1C
palette_mirror_NoFold(addr) == BitAnd(addr, 31)

palette_mirror(addr) ==
    LET a == BitAnd(addr, 31)
    IN  IF a >= 16 /\ a % 4 = 0 THEN a - 16 ELSE a

mirror_vram_addr_Swapped(mirroring, addr) ==
    LET mirrored_vram == BitAnd(addr, 12287)
        ok            == mirrored_vram >= 8192
        vram_index    == U16(mirrored_vram - 8192 + 65536)
        name_table    == vram_index \div 1024
        v == CASE mirroring = "Horizontal" /\ name_table \in {2, 3} -> vram_index - 2048
               [] mirroring = "Vertical" /\ name_table = 3 -> vram_index - 2048
               [] mirroring = "Vertical" /\ name_table \in {1, 2} -> vram_index - 1024
               [] OTHER -> vram_index
    IN  [ok |-> ok, v |-> v]

\* the u16 subtraction mirrored_vram - 0x2000 overflows when addr < 0x2000:
\* ok is FALSE there, and v is the wrapped result
mirror_vram_addr(mirroring, addr) ==
    LET mirrored_vram == BitAnd(addr, 12287)
        ok            == mirrored_vram >= 8192
        vram_index    == U16(mirrored_vram - 8192 + 65536)
        name_table    == vram_index \div 1024
        v == CASE mirroring = "Vertical" /\ name_table \in {2, 3} -> vram_index - 2048
               [] mirroring = "Horizontal" /\ name_table = 3 -> vram_index - 2048
               [] mirroring = "Horizontal" /\ name_table \in {1, 2} -> vram_index - 1024
               [] OTHER -> vram_index
    IN  [ok |-> ok, v |-> v]

VramLen == 2048

\* Ppu::read_data on the machine (an index past the end of vram panics)
read_data(m) ==
    LET p    == m.ppu
        addr == AddrGet(p.addr)
        p1   == [p EXCEPT !.addr = AddrIncrement(p.addr, vram_addr_increment(p.ctrl))]
        m1   == [m EXCEPT !.ppu = p1]
    IN  CASE addr >= CHR_ROM_BEGIN /\ addr <= CHR_ROM_END ->
               Ret([m1 EXCEPT !.ppu.data_buffer = Rd(p.chr_rom, addr)], p.data_buffer)
          [] addr >= VRAM_BEGIN /\ addr <= VRAM_END ->
               LET i == mirror_vram_addr(p.mirroring, addr).v
               IN  IF i >= VramLen THEN Ret(Panic(m1), 0)
                   ELSE Ret([m1 EXCEPT !.ppu.data_buffer = Rd(p.vram, i)], p.data_buffer)
          [] addr \in {16144, 16148, 16152, 16156} ->
               Ret(m1, Rd(p.palette_table, addr - 16144))
          [] addr >= PALETTE_BEGIN /\ addr <= PALETTE_END ->
               Ret(m1, Rd(p.palette_table, palette_mirror(addr)))
          [] OTHER -> Ret(m1, 0)

\* Ppu::write_data on the machine
write_data(m, value) ==
    LET p    == m.ppu
        addr == AddrGet(p.addr)
        p1   == [p EXCEPT !.addr = AddrIncrement(p.addr, vram_addr_increment(p.ctrl))]
        m1   == [m EXCEPT !.ppu = p1]
        mir  == mirror_vram_addr(p.mirroring, addr)
    IN  IF ~mir.ok /\ m.env.overflow_checks THEN Panic(m1)
        ELSE CASE addr >= CHR_ROM_BEGIN /\ addr <= CHR_ROM_END -> m1
               [] addr >= VRAM_BEGIN /\ addr <= VRAM_END ->
                    IF mir.v >= VramLen THEN Panic(m1)
                    ELSE [m1 EXCEPT !.ppu.vram = Wr(p.vram, mir.v, value)]
               [] addr \in {16144, 16148, 16152, 16156} ->
                    [m1 EXCEPT !.ppu.palette_table = Wr(p.palette_table, addr - 16144, value)]
               [] addr >= PALETTE_BEGIN /\ addr <= PALETTE_END ->
                    [m1 EXCEPT !.ppu.palette_table =
                                  Wr(p.palette_table, palette_mirror(addr), value)]
               [] OTHER -> m1

\* Ppu::poll_nmi_status: Option::take
poll_nmi_status(p) == [p |-> [p EXCEPT !.nmi_interrupt = None], v |-> p.nmi_interrupt]

----------------------------------------------------------------------------
(* cpu/bus.rs                                                              *)

RamLen == 2048

BusNew(cart) ==
    [ram |-> EmptyMem, ppu |-> PpuNew(cart.chr_rom, cart.mirroring)]

\* the PPU register arms of Bus::read, addr in 0x2000..0x2007
BusReadRegister(m, addr) ==
    CASE addr = PPU_STATUS ->
           LET r == read_status(m.ppu) IN Ret([m EXCEPT !.ppu = r.p], r.v)
      [] addr = PPU_OAM_DATA -> Ret(m, read_oam_data(m.ppu))
      [] addr = PPU_MAP_DATA -> read_data(m)
      [] OTHER -> Ret(m, 0)

\* Bus::read that dispatches a mirror address without masking it
BusRead_NoMirror(m, addr) ==
    IF m.env.panicked THEN Ret(m, 0)
    ELSE CASE addr >= RAM_BEGIN /\ addr <= RAM_END -> Ret(m, Rd(m.ram, BitAnd(addr, 2047)))
           [] addr >= PPU_CTRL /\ addr <= PPU_MAP_DATA -> BusReadRegister(m, addr)
           [] addr >= 8200 /\ addr <= PPU_REGISTER_END ->
                BusReadRegister(m, addr)
           [] addr >= PRG_ROM_BEGIN /\ addr <= PRG_ROM_END ->
                LET loc0 == addr - 32768
                    rom_location == IF m.cartridge.prg_len = 16384 THEN loc0 % 16384 ELSE loc0
                IN  IF rom_location >= m.cartridge.prg_len THEN Ret(Panic(m), 0)
                    ELSE Ret(m, Rd(m.cartridge.prg_rom, rom_location))
           [] OTHER -> Ret(m, 0)

BusRead(m, addr) ==
    IF m.env.panicked THEN Ret(m, 0)
    ELSE CASE addr >= RAM_BEGIN /\ addr <= RAM_END -> Ret(m, Rd(m.ram, BitAnd(addr, 2047)))
           [] addr >= PPU_CTRL /\ addr <= PPU_MAP_DATA -> BusReadRegister(m, addr)
           [] addr >= 8200 /\ addr <= PPU_REGISTER_END ->
                \* Mirror down address to real PPU space
                BusReadRegister(m, BitAnd(addr, 8199))
           [] addr >= PRG_ROM_BEGIN /\ addr <= PRG_ROM_END ->
                LET loc0 == addr - 32768
                    rom_location == IF m.cartridge.prg_len = 16384 THEN loc0 % 16384 ELSE loc0
                IN  IF rom_location >= m.cartridge.prg_len THEN Ret(Panic(m), 0)
                    ELSE Ret(m, Rd(m.cartridge.prg_rom, rom_location))
           [] OTHER -> Ret(m, 0)

\* u16::from_le_bytes([lsb, msb]), msb being the second read of the pair
from_le_bytes(lsb, msb) == Ret(msb.m, msb.v * 256 + lsb)

ReadMsb(lsb, addr) == from_le_bytes(lsb.v, BusRead(lsb.m, addr))

\* read_u16 with the two reads exchanged
read_u16_Swapped(m, addr) == ReadMsb(BusRead(m, U16(addr + 1)), addr)

read_u16(m, addr) == ReadMsb(BusRead(m, addr), U16(addr + 1))

read_u16_zp(m, addr) == ReadMsb(BusRead(m, addr), U8(addr + 1))

\* Ppu::write_oam_dma on the machine: the post-incremented stores of
\* buffer[i..i+n-1], in order, the range taken by halves
RECURSIVE write_oam_dma(_, _, _, _)
write_oam_dma(m, buffer, i, n) ==
    IF m.env.panicked THEN m
    ELSE IF n = 1 THEN [m EXCEPT !.ppu = write_oam_data(m.ppu, buffer[i])]
    ELSE write_oam_dma(write_oam_dma(m, buffer, i, n \div 2),
                       buffer, i + n \div 2, n - n \div 2)

DmaRead(f, i, r) == [m |-> r.m, buffer |-> [f.buffer EXCEPT ![i] = r.v]]

\* the read loop of the PPU_OAM_DMA arm: buffer[i] = self.read(hi + i) for
\* i..i+n-1, in order, the range taken by halves; a panicking read ends it
RECURSIVE DmaFill(_, _, _, _)
DmaFill(f, hi, i, n) ==
    IF f.m.env.panicked THEN f
    ELSE IF n = 1 THEN DmaRead(f, i, BusRead(f.m, hi + i))
    ELSE DmaFill(DmaFill(f, hi, i, n \div 2), hi, i + n \div 2, n - n \div 2)

\* the stores of the DMA started at OAM address 0
DmaStore_FromZero(f) ==
    write_oam_dma([f.m EXCEPT !.ppu.oam_addr = 0], f.buffer, 0, 256)

DmaStore(f) == write_oam_dma(f.m, f.buffer, 0, 256)

\* the PPU register arms of Bus::write, addr in 0x2000..0x2007
BusWriteRegister(m, addr, value) ==
    CASE addr = PPU_CTRL -> [m EXCEPT !.ppu = write_ctrl(m.ppu, value)]
      [] addr = PPU_MASK -> [m EXCEPT !.ppu = write_mask(m.ppu, value)]
      [] addr = PPU_STATUS -> m
      [] addr = PPU_OAM_ADDR -> [m EXCEPT !.ppu = write_oam_addr(m.ppu, value)]
      [] addr = PPU_OAM_DATA -> [m EXCEPT !.ppu = write_oam_data(m.ppu, value)]
      [] addr = PPU_SCROLL -> [m EXCEPT !.ppu = write_scroll(m.ppu, value)]
      [] addr = PPU_MAP_ADDR -> [m EXCEPT !.ppu = write_addr(m.ppu, value)]
      [] addr = PPU_MAP_DATA -> write_data(m, value)
      [] OTHER -> m

BusWrite(m, addr, value) ==
    IF m.env.panicked THEN m
    ELSE CASE addr >= RAM_BEGIN /\ addr <= RAM_END ->
                [m EXCEPT !.ram = Wr(m.ram, BitAnd(addr, 2047), value)]
           [] addr >= PPU_CTRL /\ addr <= PPU_MAP_DATA -> BusWriteRegister(m, addr, value)
           [] addr >= 8200 /\ addr <= PPU_REGISTER_END ->
                BusWriteRegister(m, BitAnd(addr, 8199), value)
           [] addr = PPU_OAM_DMA ->
                DmaStore(DmaFill([m |-> m, buffer |-> [i \in 0..255 |-> 0]],
                                 value * 256, 0, 256))
           [] OTHER -> m

----------------------------------------------------------------------------
(* cpu/cpu.rs                                                              *)

Reset(r) ==
    [r.m EXCEPT !.cpu = [cycle |-> 7, pc |-> r.v, sp |-> 253,
                         r_a |-> 0, r_x |-> 0, r_y |-> 0,
                         status |-> BitOr(FlagU, FlagI)]]

CpuNew(m0) == Reset(read_u16(m0, 65532))

ControllerDefault == [step_mode |-> FALSE, pause |-> FALSE, quit |-> FALSE]

page_cross(base, absolute) ==
    BitAnd(base, 65280) # BitAnd(absolute, 65280)

\* a push whose decrement stops at 0
Pushed_Saturating(w) ==
    IF w.env.panicked THEN w
    ELSE [w EXCEPT !.cpu.sp = IF w.cpu.sp = 0 THEN 0 ELSE w.cpu.sp - 1]

\* the stack pointer after the store of a push
Pushed(w) ==
    IF w.env.panicked THEN w ELSE [w EXCEPT !.cpu.sp = U8(w.cpu.sp + 255)]

push(m, data) == Pushed(BusWrite(m, BitOr(256, m.cpu.sp), data))

push_u16(m, data) ==
    LET lo == data % 256
        hi == data \div 256
    IN  push(push(m, hi), lo)

pop(m) ==
    IF m.env.panicked THEN Ret(m, 0)
    ELSE LET m1 == [m EXCEPT !.cpu.sp = U8(m.cpu.sp + 1)]
         IN  BusRead(m1, BitOr(256, m1.cpu.sp))

PopHi(lo) == from_le_bytes(lo.v, pop(lo.m))

pop_u16(m) == PopHi(pop(m))

set_zn(status, value) ==
    SetFlag(SetFlag(status, FlagZ, value = 0), FlagN, BitAnd(value, 128) = 128)

write_fetched(m, address_mode, address, value) ==
    CASE address_mode \in {"Imp", "Acc"} -> [m EXCEPT !.cpu.r_a = value]
      [] address_mode = "Imm" -> m
      [] OTHER -> IF address = None THEN Panic(m) ELSE BusWrite(m, address[1], value)

\* returns the machine with pc moved, and the cycles to add
branch(m, relative_address) ==
    LET absolute_address ==
            IF BitAnd(relative_address, 128) = 128
            THEN U16(m.cpu.pc + BitOr(relative_address, 65280))
            ELSE U16(m.cpu.pc + relative_address)
        m1 == [m EXCEPT !.cpu.pc = absolute_address]
    IN  Ret(m1, IF page_cross(m1.cpu.pc, absolute_address) THEN 2 ELSE 1)

----------------------------------------------------------------------------
(* cpu/instructions.rs                                                     *)

\* Instruction::from_u8: the decode table, indexed by opcode + 1.  The 105 bytes
\* that the match does not list take its default arm: NOP, Implied, 0 cycles.
OperationTable ==
  <<
     "BRK", "ORA", "NOP", "NOP", "NOP", "ORA", "ASL", "NOP", "PHP", "ORA", "ASL", "NOP", "NOP", "ORA", "ASL", "NOP",
     "BPL", "ORA", "NOP", "NOP", "NOP", "ORA", "ASL", "NOP", "CLC", "ORA", "NOP", "NOP", "NOP", "ORA", "ASL", "NOP",
     "JSR", "AND", "NOP", "NOP", "BIT", "AND", "ROL", "NOP", "PLP", "AND", "ROL", "NOP", "BIT", "AND", "ROL", "NOP",
     "BMI", "AND", "NOP", "NOP", "NOP", "AND", "ROL", "NOP", "SEC", "AND", "NOP", "NOP", "NOP", "AND", "ROL", "NOP",
     "RTI", "EOR", "NOP", "NOP", "NOP", "EOR", "LSR", "NOP", "PHA", "EOR", "LSR", "NOP", "JMP", "EOR", "LSR", "NOP",
     "BVC", "EOR", "NOP", "NOP", "NOP", "EOR", "LSR", "NOP", "CLI", "EOR", "NOP", "NOP", "NOP", "EOR", "LSR", "NOP",
     "RTS", "ADC", "NOP", "NOP", "NOP", "ADC", "ROR", "NOP", "PLA", "ADC", "ROR", "NOP", "JMP", "ADC", "ROR", "NOP",
     "BVS", "ADC", "NOP", "NOP", "NOP", "ADC", "ROR", "NOP", "SEI", "ADC", "NOP", "NOP", "NOP", "ADC", "ROR", "NOP",
     "NOP", "STA", "NOP", "NOP", "STY", "STA", "STX", "NOP", "DEY", "NOP", "TXA", "NOP", "STY", "STA", "STX", "NOP",
     "BCC", "STA", "NOP", "NOP", "STY", "STA", "STX", "NOP", "TYA", "STA", "TXS", "NOP", "NOP", "STA", "NOP", "NOP",
     "LDY", "LDA", "LDX", "NOP", "LDY", "LDA", "LDX", "NOP", "TAY", "LDA", "TAX", "NOP", "LDY", "LDA", "LDX", "NOP",
     "BCS", "LDA", "NOP", "NOP", "LDY", "LDA", "LDX", "NOP", "CLV", "LDA", "TSX", "NOP", "LDY", "LDA", "LDX", "NOP",
     "CPY", "CMP", "NOP", "NOP", "CPY", "CMP", "DEC", "NOP", "INY", "CMP", "DEX", "NOP", "CPY", "CMP", "DEC", "NOP",
     "BNE", "CMP", "NOP", "NOP", "NOP", "CMP", "DEC", "NOP", "CLD", "CMP", "NOP", "NOP", "NOP", "CMP", "DEC", "NOP",
     "CPX", "SBC", "NOP", "NOP", "CPX", "SBC", "INC", "NOP", "INX", "SBC", "NOP", "NOP", "CPX", "SBC", "INC", "NOP",
     "BEQ", "SBC", "NOP", "NOP", "NOP", "SBC", "INC", "NOP", "SED", "SBC", "NOP", "NOP", "NOP", "SBC", "INC", "NOP"
  >>

\* addressing modes: Imp(lied), Imm(ediate), Zp = ZeroPage, Rel(ative),
\* Abs(olute), Ind(irect), Acc(umulator), with X / Y for the indexed forms
AddressModeTable ==
  <<
     "Imp", "IndX", "Imp", "Imp", "Imp", "Zp", "Zp", "Imp", "Imp", "Imm", "Acc", "Imp", "Imp", "Abs", "Abs", "Imp",
     "Rel", "IndY", "Imp", "Imp", "Imp", "ZpX", "ZpX", "Imp", "Imp", "AbsY", "Imp", "Imp", "Imp", "AbsX", "AbsX", "Imp",
     "Abs", "IndX", "Imp", "Imp", "Zp", "Zp", "Zp", "Imp", "Imp", "Imm", "Acc", "Imp", "Abs", "Abs", "Abs", "Imp",
     "Rel", "IndY", "Imp", "Imp", "Imp", "ZpX", "ZpX", "Imp", "Imp", "AbsY", "Imp", "Imp", "Imp", "AbsX", "AbsX", "Imp",
     "Imp", "IndX", "Imp", "Imp", "Imp", "Zp", "Zp", "Imp", "Imp", "Imm", "Acc", "Imp", "Abs", "Abs", "Abs", "Imp",
     "Rel", "IndY", "Imp", "Imp", "Imp", "ZpX", "ZpX", "Imp", "Imp", "AbsY", "Imp", "Imp", "Imp", "AbsX", "AbsX", "Imp",
     "Imp", "IndX", "Imp", "Imp", "Imp", "Zp", "Zp", "Imp", "Imp", "Imm", "Acc", "Imp", "Ind", "Abs", "Abs", "Imp",
     "Rel", "IndY", "Imp", "Imp", "Imp", "ZpX", "ZpX", "Imp", "Imp", "AbsY", "Imp", "Imp", "Imp", "AbsX", "AbsX", "Imp",
     "Imp", "IndX", "Imp", "Imp", "Zp", "Zp", "Zp", "Imp", "Imp", "Imp", "Imp", "Imp", "Abs", "Abs", "Abs", "Imp",
     "Rel", "IndY", "Imp", "Imp", "ZpX", "ZpX", "ZpY", "Imp", "Imp", "AbsY", "Imp", "Imp", "Imp", "AbsX", "Imp", "Imp",
     "Imm", "IndX", "Imm", "Imp", "Zp", "Zp", "Zp", "Imp", "Imp", "Imm", "Imp", "Imp", "Abs", "Abs", "Abs", "Imp",
     "Rel", "IndY", "Imp", "Imp", "ZpX", "ZpX", "ZpY", "Imp", "Imp", "AbsY", "Imp", "Imp", "AbsX", "AbsX", "AbsY", "Imp",
     "Imm", "IndX", "Imp", "Imp", "Zp", "Zp", "Zp", "Imp", "Imp", "Imm", "Imp", "Imp", "Abs", "Abs", "Abs", "Imp",
     "Rel", "IndY", "Imp", "Imp", "Imp", "ZpX", "ZpX", "Imp", "Imp", "AbsY", "Imp", "Imp", "Imp", "AbsX", "AbsX", "Imp",
     "Imm", "IndX", "Imp", "Imp", "Zp", "Zp", "Zp", "Imp", "Imp", "Imm", "Imp", "Imp", "Abs", "Abs", "Abs", "Imp",
     "Rel", "IndY", "Imp", "Imp", "Imp", "ZpX", "ZpX", "Imp", "Imp", "AbsY", "Imp", "Imp", "Imp", "AbsX", "AbsX", "Imp"
  >>

CyclesTable ==
  <<
     7, 6, 0, 0, 0, 3, 5, 0, 3, 2, 2, 0, 0, 4, 6, 0,
     2, 5, 0, 0, 0, 4, 6, 0, 2, 4, 0, 0, 0, 4, 7, 0,
     6, 6, 0, 0, 3, 3, 5, 0, 4, 2, 2, 0, 4, 4, 6, 0,
     2, 5, 0, 0, 0, 4, 6, 0, 2, 4, 0, 0, 0, 4, 7, 0,
     6, 6, 0, 0, 0, 3, 5, 0, 3, 2, 2, 0, 3, 4, 6, 0,
     2, 5, 0, 0, 0, 4, 6, 0, 2, 4, 0, 0, 0, 4, 7, 0,
     6, 6, 0, 0, 0, 3, 5, 0, 4, 2, 2, 0, 5, 4, 6, 0,
     2, 5, 0, 0, 0, 4, 6, 0, 2, 4, 0, 0, 0, 4, 7, 0,
     0, 6, 0, 0, 3, 3, 3, 0, 2, 0, 2, 0, 4, 4, 4, 0,
     2, 6, 0, 0, 4, 4, 4, 0, 2, 5, 2, 0, 0, 5, 0, 0,
     2, 6, 2, 0, 3, 3, 3, 0, 2, 2, 2, 0, 4, 4, 4, 0,
     2, 5, 0, 0, 4, 4, 4, 0, 2, 4, 2, 0, 4, 4, 4, 0,
     2, 6, 0, 0, 3, 3, 5, 0, 2, 2, 2, 0, 4, 4, 6, 0,
     2, 5, 0, 0, 0, 4, 6, 0, 2, 4, 0, 0, 0, 4, 7, 0,
     2, 6, 0, 0, 3, 3, 5, 0, 2, 2, 2, 0, 4, 4, 6, 0,
     2, 5, 0, 0, 0, 4, 6, 0, 2, 4, 0, 0, 0, 4, 7, 0
  >>

\* the opcodes the match lists explicitly
ListedOpcodes ==
  {0, 1, 5, 6, 8, 9, 10, 13, 14, 16, 17, 21, 22, 24, 25, 29, 30, 32, 33, 36, 37, 38, 40, 41, 42, 44, 45, 46, 48, 49, 53, 54, 56, 57, 61, 62, 64, 65, 69, 70, 72, 73, 74, 76, 77, 78, 80, 81, 85, 86, 88, 89, 93, 94, 96, 97, 101, 102, 104, 105, 106, 108, 109, 110, 112, 113, 117, 118, 120, 121, 125, 126, 129, 132, 133, 134, 136, 138, 140, 141, 142, 144, 145, 148, 149, 150, 152, 153, 154, 157, 160, 161, 162, 164, 165, 166, 168, 169, 170, 172, 173, 174, 176, 177, 180, 181, 182, 184, 185, 186, 188, 189, 190, 192, 193, 196, 197, 198, 200, 201, 202, 204, 205, 206, 208, 209, 213, 214, 216, 217, 221, 222, 224, 225, 228, 229, 230, 232, 233, 234, 236, 237, 238, 240, 241, 245, 246, 248, 249, 253, 254}

\* the decode with 2 cycles in the default arm
from_u8_DefaultTwo(value) ==
    [operation    |-> OperationTable[value + 1],
     address_mode |-> AddressModeTable[value + 1],
     cycles       |-> IF value \in ListedOpcodes THEN CyclesTable[value + 1] ELSE 2]

from_u8(value) ==
    [operation    |-> OperationTable[value + 1],
     address_mode |-> AddressModeTable[value + 1],
     cycles       |-> CyclesTable[value + 1]]

\* AddressingMode::offset
offset(address_mode) ==
    CASE address_mode \in {"Imp", "Acc"} -> 0
      [] address_mode \in {"Zp", "ZpX", "ZpY", "Ind", "Imm", "Rel", "IndX", "IndY"} -> 1
      [] OTHER -> 2

\* InstructionLoadData(Option<u16>, bool): addr is None or Some(address)
Loaded(m, addr, cross) == [m |-> m, addr |-> addr, cross |-> cross]

\* the operand byte r as a zero-page address, indexed
ZeroPage(r, index) == Loaded(r.m, Some(U8(r.v + index)), FALSE)

\* the operand word r as an address, indexed, with the page-cross test
Absolute(r, index) ==
    LET absolute_address == U16(r.v + index)
    IN  Loaded(r.m, Some(absolute_address), page_cross(r.v, absolute_address))

\* the pointer r read as a plain word
Indirect_NoWrap(r) == Absolute(read_u16(r.m, r.v), 0)

\* the pointer r of JMP (ind): the high byte comes from the same page when the
\* pointer's low byte is 0xFF
Indirect(r) ==
    IF BitAnd(r.v, 255) = 255
    THEN Absolute(ReadMsb(BusRead(r.m, r.v), BitAnd(r.v, 65280)), 0)
    ELSE Absolute(read_u16(r.m, r.v), 0)

\* the zero-page pointer at operand byte r, indexed
ZeroPagePointer(r, index) == read_u16_zp(r.m, U8(r.v + index))

load_instruction_address(m, address_mode) ==
    LET pc == m.cpu.pc
    IN  CASE address_mode = "Imm" -> Loaded(m, Some(pc), FALSE)
          [] address_mode \in {"Zp", "Rel"} -> ZeroPage(BusRead(m, pc), 0)
          [] address_mode = "ZpX" -> ZeroPage(BusRead(m, pc), m.cpu.r_x)
          [] address_mode = "ZpY" -> ZeroPage(BusRead(m, pc), m.cpu.r_y)
          [] address_mode = "Abs" -> Absolute(read_u16(m, pc), 0)
          [] address_mode = "AbsX" -> Absolute(read_u16(m, pc), m.cpu.r_x)
          [] address_mode = "AbsY" -> Absolute(read_u16(m, pc), m.cpu.r_y)
          [] address_mode = "Ind" -> Indirect(read_u16(m, pc))
          [] address_mode = "IndX" ->
               Absolute(ZeroPagePointer(BusRead(m, pc), m.cpu.r_x), 0)
          [] address_mode = "IndY" ->
               Absolute(ZeroPagePointer(BusRead(m, pc), 0), m.cpu.r_y)
          [] OTHER -> Loaded(m, None, FALSE)

\* every memory operand is read, the stores' included
load_instruction_data_ReadsStores(m, address_mode, instruction, address) ==
    CASE address_mode \in {"Imp", "Rel"} -> Ret(m, 0)
      [] address_mode = "Imm" -> BusRead(m, m.cpu.pc)
      [] address_mode = "Acc" -> Ret(m, m.cpu.r_a)
      [] OTHER ->
           IF address = None THEN Ret(Panic(m), 0)
           ELSE BusRead(m, address[1])

load_instruction_data(m, address_mode, instruction, address) ==
    CASE address_mode \in {"Imp", "Rel"} -> Ret(m, 0)
      [] address_mode = "Imm" -> BusRead(m, m.cpu.pc)
      [] address_mode = "Acc" -> Ret(m, m.cpu.r_a)
      [] OTHER ->
           IF instruction.operation \in {"STA", "STX", "STY"} THEN Ret(m, 0)
           ELSE IF address = None THEN Ret(Panic(m), 0)
           ELSE BusRead(m, address[1])

\* the result of one arm of the match in execute_instruction: the machine and
\* the cycles the arm adds (the branches)
Arm(m, extra) == [m |-> m, extra |-> extra]

St(m, status) == [m EXCEPT !.cpu.status = status]

compare(m, lhs, rhs) ==
    LET value == U8(lhs - rhs + 256)
    IN  St(m, SetFlag(set_zn(m.cpu.status, value), FlagC, lhs >= rhs))

Branched(b) == Arm(b.m, b.v)

BranchIf(m, cond, address) ==
    IF cond THEN Branched(branch(m, address[1])) ELSE Arm(m, 0)

\* the sum without the carry in
OpADC_NoCarryIn(m, d) ==
    LET a   == m.cpu.r_a
        sum == a + d
        s1  == SetFlag(m.cpu.status, FlagC, sum > 255)
        s2  == SetFlag(s1, FlagZ, BitAnd(sum, 255) = 0)
        s3  == SetFlag(s2, FlagV,
                 BitAnd(BitAnd(65535 - BitXor(a, d), BitXor(a, sum)), 128) # 0)
        s4  == SetFlag(s3, FlagN, BitAnd(sum, 128) # 0)
    IN  [m EXCEPT !.cpu.status = s4, !.cpu.r_a = BitAnd(sum, 255)]

OpADC(m, d) ==
    LET a   == m.cpu.r_a
        sum == a + d + (IF HasFlag(m.cpu.status, FlagC) THEN 1 ELSE 0)
        s1  == SetFlag(m.cpu.status, FlagC, sum > 255)
        s2  == SetFlag(s1, FlagZ, BitAnd(sum, 255) = 0)
        s3  == SetFlag(s2, FlagV,
                 BitAnd(BitAnd(65535 - BitXor(a, d), BitXor(a, sum)), 128) # 0)
        s4  == SetFlag(s3, FlagN, BitAnd(sum, 128) # 0)
    IN  [m EXCEPT !.cpu.status = s4, !.cpu.r_a = BitAnd(sum, 255)]

\* the difference with the borrow taken from a set carry
OpSBC_Borrow(m, d) ==
    LET a          == m.cpu.r_a
        inverted   == BitXor(d, 255)
        difference == a + inverted + (IF HasFlag(m.cpu.status, FlagC) THEN 0 ELSE 1)
        s1 == SetFlag(m.cpu.status, FlagC, BitAnd(difference, 65280) # 0)
        s2 == SetFlag(s1, FlagZ, BitAnd(difference, 255) = 0)
        s3 == SetFlag(s2, FlagV,
                BitAnd(BitAnd(BitXor(difference, a), BitXor(difference, inverted)), 128) # 0)
        s4 == SetFlag(s3, FlagN, BitAnd(difference, 128) # 0)
    IN  [m EXCEPT !.cpu.status = s4, !.cpu.r_a = BitAnd(difference, 255)]

OpSBC(m, d) ==
    LET a          == m.cpu.r_a
        inverted   == BitXor(d, 255)
        difference == a + inverted + (IF HasFlag(m.cpu.status, FlagC) THEN 1 ELSE 0)
        s1 == SetFlag(m.cpu.status, FlagC, BitAnd(difference, 65280) # 0)
        s2 == SetFlag(s1, FlagZ, BitAnd(difference, 255) = 0)
        s3 == SetFlag(s2, FlagV,
                BitAnd(BitAnd(BitXor(difference, a), BitXor(difference, inverted)), 128) # 0)
        s4 == SetFlag(s3, FlagN, BitAnd(difference, 128) # 0)
    IN  [m EXCEPT !.cpu.status = s4, !.cpu.r_a = BitAnd(difference, 255)]

\* register loads and transfers that end in set_zn
SetReg(m, reg, value) ==
    LET m1 == CASE reg = "a" -> [m EXCEPT !.cpu.r_a = value]
                [] reg = "x" -> [m EXCEPT !.cpu.r_x = value]
                [] reg = "y" -> [m EXCEPT !.cpu.r_y = value]
    IN  St(m1, set_zn(m.cpu.status, value))

\* self.set_zn(value) on the machine
SetZN(m, value) == St(m, set_zn(m.cpu.status, value))

\* the status pushed with U alone forced
PushStatus_NoB(m) == push(m, BitOr(m.cpu.status, FlagU))

\* self.push(bus, self.status | U | B)
PushStatus(m) == push(m, BitOr(BitOr(m.cpu.status, FlagU), FlagB))

\* the status from the popped byte with B left as popped
PullStatus_KeepB(r) == St(r.m, SetFlag(r.v, FlagU, TRUE))

\* self.status from the popped byte: B removed, U inserted
PullStatus(r) == St(r.m, SetFlag(SetFlag(r.v, FlagB, FALSE), FlagU, TRUE))

\* the status of RTI taken as popped
ReturnStatus_Raw(r) == St(r.m, r.v)

\* RTI: from_bits_truncate(self.pop()) & !B | U
ReturnStatus(r) == St(r.m, BitOr(BitAnd(r.v, 255 - FlagB), FlagU))

\* PLA without set_zn
PullA_NoFlags(r) == [r.m EXCEPT !.cpu.r_a = r.v]

PullA(r) == SetReg(r.m, "a", r.v)

\* self.pc from the word alone
JumpTo_NoDisp(r, disp) == [r.m EXCEPT !.cpu.pc = r.v]

\* self.pc from a word read or popped, plus a displacement
JumpTo(r, disp) == [r.m EXCEPT !.cpu.pc = U16(r.v + disp)]

\* the match on instruction.operation; pc has been advanced past the operand
Operate(m, instruction, address, d) ==
    LET op   == instruction.operation
        mode == instruction.address_mode
        s    == m.cpu.status
        c    == BitAnd(s, FlagC)
    IN  CASE op = "ADC" -> Arm(OpADC(m, d), 0)
          [] op = "AND" -> Arm(SetReg(m, "a", BitAnd(m.cpu.r_a, d)), 0)
          [] op = "ASL" ->
               LET value == U8(d * 2)
                   m1 == St(m, set_zn(SetFlag(s, FlagC, Bit(d, 7) # 0), value))
               IN  Arm(write_fetched(m1, mode, address, value), 0)
          [] op = "BCC" -> BranchIf(m, ~HasFlag(s, FlagC), address)
          [] op = "BCS" -> BranchIf(m, HasFlag(s, FlagC), address)
          [] op = "BEQ" -> BranchIf(m, HasFlag(s, FlagZ), address)
          [] op = "BIT" ->
               LET value == BitAnd(m.cpu.r_a, d)
                   s1 == SetFlag(s, FlagZ, value = 0)
                   s2 == SetFlag(s1, FlagN, BitAnd(d, 128) # 0)
                   s3 == SetFlag(s2, FlagV, BitAnd(d, 64) # 0)
               IN  Arm(St(m, s3), 0)
          [] op = "BMI" -> BranchIf(m, HasFlag(s, FlagN), address)
          [] op = "BNE" -> BranchIf(m, ~HasFlag(s, FlagZ), address)
          [] op = "BPL" -> BranchIf(m, ~HasFlag(s, FlagN), address)
          [] op = "BRK" ->
               Arm(JumpTo(read_u16(St(PushStatus(push_u16(m, m.cpu.pc)),
                                      SetFlag(s, FlagI, TRUE)), 65534), 0), 0)
          [] op = "BVC" -> BranchIf(m, ~HasFlag(s, FlagV), address)
          [] op = "BVS" -> BranchIf(m, HasFlag(s, FlagV), address)
          [] op = "CLC" -> Arm(St(m, SetFlag(s, FlagC, FALSE)), 0)
          [] op = "CLD" -> Arm(St(m, SetFlag(s, FlagD, FALSE)), 0)
          [] op = "CLI" -> Arm(St(m, SetFlag(s, FlagI, FALSE)), 0)
          [] op = "CLV" -> Arm(St(m, SetFlag(s, FlagV, FALSE)), 0)
          [] op = "CMP" -> Arm(compare(m, m.cpu.r_a, d), 0)
          [] op = "CPX" -> Arm(compare(m, m.cpu.r_x, d), 0)
          [] op = "CPY" -> Arm(compare(m, m.cpu.r_y, d), 0)
          [] op = "DEC" ->
               LET value == U8(d + 255)
               IN  Arm(SetZN(write_fetched(m, mode, address, value), value), 0)
          [] op = "DEX" -> Arm(SetReg(m, "x", U8(m.cpu.r_x + 255)), 0)
          [] op = "DEY" -> Arm(SetReg(m, "y", U8(m.cpu.r_y + 255)), 0)
          [] op = "EOR" -> Arm(SetReg(m, "a", BitXor(m.cpu.r_a, d)), 0)
          [] op = "INC" ->
               LET value == U8(d + 1)
               IN  Arm(SetZN(write_fetched(m, mode, address, value), value), 0)
          [] op = "INX" -> Arm(SetReg(m, "x", U8(m.cpu.r_x + 1)), 0)
          [] op = "INY" -> Arm(SetReg(m, "y", U8(m.cpu.r_y + 1)), 0)
          [] op = "JMP" -> Arm([m EXCEPT !.cpu.pc = address[1]], 0)
          [] op = "JSR" ->
               LET m1 == push_u16(m, U16(m.cpu.pc + 65535))
               IN  Arm([m1 EXCEPT !.cpu.pc = address[1]], 0)
          [] op = "LDA" -> Arm(SetReg(m, "a", d), 0)
          [] op = "LDX" -> Arm(SetReg(m, "x", d), 0)
          [] op = "LDY" -> Arm(SetReg(m, "y", d), 0)
          [] op = "LSR" ->
               LET value == d \div 2
                   m0 == St(m, SetFlag(s, FlagC, BitAnd(d, 1) = 1))
               IN  Arm(SetZN(write_fetched(m0, mode, address, value), value), 0)
          [] op = "NOP" -> Arm(m, 0)
          [] op = "ORA" -> Arm(SetReg(m, "a", BitOr(m.cpu.r_a, d)), 0)
          [] op = "PHA" -> Arm(push(m, m.cpu.r_a), 0)
          [] op = "PHP" -> Arm(push(m, BitOr(BitOr(s, FlagU), FlagB)), 0)
          [] op = "PLA" -> Arm(PullA(pop(m)), 0)
          [] op = "PLP" -> Arm(PullStatus(pop(m)), 0)
          [] op = "ROL" ->
               LET value == BitOr(U8(d * 2), c)
                   m1 == St(m, set_zn(SetFlag(s, FlagC, Bit(d, 7) # 0), value))
               IN  Arm(write_fetched(m1, mode, address, value), 0)
          [] op = "ROR" ->
               LET rot   == (d \div 2) + 128 * (d % 2)
                   value == IF HasFlag(s, FlagC) THEN BitOr(rot, 128)
                            ELSE rot - BitAnd(rot, 128)
                   m1 == St(m, set_zn(SetFlag(s, FlagC, BitAnd(d, 1) # 0), value))
               IN  Arm(write_fetched(m1, mode, address, value), 0)
          [] op = "RTI" ->
               Arm(JumpTo(pop_u16(ReturnStatus(pop(m))), 0), 0)
          [] op = "RTS" -> Arm(JumpTo(pop_u16(m), 1), 0)
          [] op = "SBC" -> Arm(OpSBC(m, d), 0)
          [] op = "SEC" -> Arm(St(m, SetFlag(s, FlagC, TRUE)), 0)
          [] op = "SED" -> Arm(St(m, SetFlag(s, FlagD, TRUE)), 0)
          [] op = "SEI" -> Arm(St(m, SetFlag(s, FlagI, TRUE)), 0)
          [] op = "STA" -> Arm(BusWrite(m, address[1], m.cpu.r_a), 0)
          [] op = "STX" -> Arm(BusWrite(m, address[1], m.cpu.r_x), 0)
          [] op = "STY" -> Arm(BusWrite(m, address[1], m.cpu.r_y), 0)
          [] op = "TAX" -> Arm(SetReg(m, "x", m.cpu.r_a), 0)
          [] op = "TAY" -> Arm(SetReg(m, "y", m.cpu.r_a), 0)
          [] op = "TSX" -> Arm(SetReg(m, "x", m.cpu.sp), 0)
          [] op = "TXA" -> Arm(SetReg(m, "a", m.cpu.r_x), 0)
          [] op = "TXS" -> Arm([m EXCEPT !.cpu.sp = m.cpu.r_x], 0)
          [] op = "TYA" -> Arm(SetReg(m, "a", m.cpu.r_y), 0)
          [] OTHER -> Arm(Panic(m), 0)

\* the cycles with the page cross charged to the stores as well
Executed_StoresPay(instruction, ld, arm) ==
    Ret(arm.m, instruction.cycles + (IF ld.cross THEN 1 ELSE 0) + arm.extra)

\* the cycles of the instruction: the table's, one more on a page cross except
\* for the stores, and what the arm adds
Executed(instruction, ld, arm) ==
    Ret(arm.m, instruction.cycles
               + (IF instruction.operation \in {"STA", "STX", "STY"} THEN 0
                  ELSE IF ld.cross THEN 1 ELSE 0)
               + arm.extra)

\* pc moves past the operand, then the match on the operation
ExecuteFetched(instruction, ld, dt) ==
    LET m2 == [dt.m EXCEPT
                 !.cpu.pc = U16(dt.m.cpu.pc + offset(instruction.address_mode))]
    IN  Executed(instruction, ld,
                 IF m2.env.panicked THEN Arm(m2, 0)
                 ELSE Operate(m2, instruction, ld.addr, dt.v))

ExecuteLoaded(instruction, ld) ==
    ExecuteFetched(instruction, ld,
                   load_instruction_data(ld.m, instruction.address_mode,
                                         instruction, ld.addr))

\* returns the machine and the cycles of the instruction
execute_instruction(m, instruction) ==
    ExecuteLoaded(instruction,
                  load_instruction_address([m EXCEPT !.cpu.pc = U16(m.cpu.pc + 1)],
                                           instruction.address_mode))

\* self.cycle += cycles
Counted(ex) ==
    IF ex.m.env.panicked THEN ex.m
    ELSE [ex.m EXCEPT !.cpu.cycle = ex.m.cpu.cycle + ex.v]

Decoded(opcode) == Counted(execute_instruction(opcode.m, from_u8(opcode.v)))

\* if self.controller.step_mode { self.controller.pause = true }
StepMode_Never(m1) ==
    m1

StepMode(m1) ==
    IF m1.env.panicked THEN m1
    ELSE IF m1.controller.step_mode THEN [m1 EXCEPT !.controller.pause = TRUE]
    ELSE m1

\* Cpu::step after inject(self) has run
CpuStepFn(m) ==
    StepMode(IF ~m.controller.pause THEN Decoded(BusRead(m, m.cpu.pc)) ELSE m)

----------------------------------------------------------------------------
(* cpu/joypad.rs                                                           *)

\* Buttons: BUTTON_A, BUTTON_B, SELECT, START, UP, DOWN, LEFT, RIGHT
Buttons == <<1, 2, 4, 8, 16, 32, 64, 128>>

JoypadDefault == [strobe |-> FALSE, button_index |-> 0, buttons |-> 0]

\* Joypad::write
JoypadWrite(j, data) ==
    LET strobe == BitAnd(data, 1) = 1
    IN  [j EXCEPT !.strobe = strobe,
                  !.button_index = IF strobe THEN 0 ELSE j.button_index]

\* Joypad::read that answers 1 from the eighth read on
JoypadRead_SevenButtons(j) ==
    IF j.button_index > 6 THEN [j |-> j, v |-> 1]
    ELSE [j |-> [j EXCEPT !.button_index =
                     IF ~j.strobe /\ j.button_index <= 7
                     THEN j.button_index + 1 ELSE j.button_index],
          v |-> U8(BitAnd(j.buttons, U8(Pow2(j.button_index))))
                \div Pow2(j.button_index)]

\* Joypad::read; returns the joypad and the byte
JoypadRead(j) ==
    IF j.button_index > 7 THEN [j |-> j, v |-> 1]
    ELSE [j |-> [j EXCEPT !.button_index =
                     IF ~j.strobe /\ j.button_index <= 7
                     THEN j.button_index + 1 ELSE j.button_index],
          v |-> U8(BitAnd(j.buttons, U8(Pow2(j.button_index))))
                \div Pow2(j.button_index)]

----------------------------------------------------------------------------
(* renderer/frame.rs                                                       *)

WIDTH == 256

HEIGHT == 240

\* vec![0; WIDTH * HEIGHT * 3]
FrameDefault == EmptyMem

FrameLen == WIDTH * HEIGHT * 3

\* Frame::set_pixel on Frame.data
set_pixel(data, x, y, rgb) ==
    LET base == y * 3 * WIDTH + x * 3
    IN  IF base + 2 < FrameLen
        THEN Wr(Wr(Wr(data, base, rgb[1]), base + 1, rgb[2]), base + 2, rgb[3])
        ELSE data

----------------------------------------------------------------------------
(* The cartridges and the host.                                            *)

\* a byte sequence placed at an offset of a ROM image
Place(at, bytes) == [i \in at..(at + Len(bytes) - 1) |-> bytes[i - at + 1]]

\* CHR ROM, 8 KiB: a few non-zero bytes at both ends of the two pattern tables
ChrImage ==
    (0 :> 17) @@ (1 :> 34) @@ (32 :> 51) @@ (511 :> 68) @@ (512 :> 85)
    @@ (4096 :> 102) @@ (4097 :> 119) @@ (8191 :> 136)

\* PRG ROM, 16 KiB at $8000 mirrored at $C000.  Reset at $8000:
\*   LDA #$80 ; STA $2000 ; INX ; JMP $8005       NMI at $8010: RTI
PrgNmiLoop ==
    Place(0, <<169, 128, 141, 0, 32, 232, 76, 5, 128>>) @@ Place(16, <<64>>)
    @@ Place(16378, <<16, 128, 0, 128, 16, 128>>)

\* PRG ROM, 32 KiB.  Reset at $8000:
\*   LDX #$FF ; TXS ; LDA #$7F ; JSR $8010 ; ADC #$01 ; BNE *+0
\*   $8010: PHA ; PLA ; STA $0200,X ; RTS         NMI/IRQ at $8020: RTI
PrgCallRet ==
    Place(0, <<162, 255, 154, 169, 127, 32, 16, 128, 105, 1, 208, 0>>)
    @@ Place(16, <<72, 104, 157, 0, 2, 96>>) @@ Place(32, <<64>>)
    @@ Place(32762, <<32, 128, 0, 128, 32, 128>>)

Cart(prg_rom, prg_len, mirroring) ==
    [prg_rom |-> prg_rom, prg_len |-> prg_len, chr_rom |-> ChrImage,
     mirroring |-> mirroring]

Mirrorings == {"Vertical", "Horizontal", "FourScreen"}

\* Cpu::new(Bus::new(cartridge)) in a build with or without overflow checks
Construct(cart, overflow_checks) ==
    LET b  == BusNew(cart)
        m0 == [cpu |-> [cycle |-> 0, pc |-> 0, sp |-> 0, r_a |-> 0, r_x |-> 0,
                        r_y |-> 0, status |-> 0],
               controller |-> ControllerDefault, ram |-> b.ram, cartridge |-> cart,
               ppu |-> b.ppu,
               env |-> [overflow_checks |-> overflow_checks, panicked |-> FALSE]]
    IN  CpuNew(m0)

Become(m) ==
    /\ cpu' = m.cpu
    /\ controller' = m.controller
    /\ ram' = m.ram
    /\ cartridge' = m.cartridge
    /\ ppu' = m.ppu
    /\ env' = m.env
    /\ UNCHANGED <<joypad, frame>>

Did(op, addr, value) == [op |-> op, addr |-> addr, value |-> value]

InitWith(carts, builds) ==
    \E cart \in carts, oc \in builds :
        LET m == Construct(cart, oc)
        IN  /\ cpu = m.cpu
            /\ controller = m.controller
            /\ ram = m.ram
            /\ cartridge = m.cartridge
            /\ ppu = m.ppu
            /\ env = m.env
            /\ last = Did("new", 0, 0)
            /\ data_ops = 0
            /\ joypad = JoypadDefault
            /\ frame = FrameDefault

\* the host may make MaxData accesses to the PPU data ports
MaxData == 3

IsDataPort(addr) ==
    addr >= PPU_CTRL /\ addr <= PPU_REGISTER_END /\ BitAnd(addr, 8199) = PPU_MAP_DATA

IsOamPort(addr) ==
    addr >= PPU_CTRL /\ addr <= PPU_REGISTER_END /\ BitAnd(addr, 8199) = PPU_OAM_DATA

\* $2004 accesses count with the $2007 accesses: both ports post-increment
CountDataOp(addr) ==
    IF IsDataPort(addr) \/ IsOamPort(addr)
    THEN data_ops < MaxData /\ data_ops' = data_ops + 1
    ELSE data_ops' = data_ops

\* the host calls Bus::read(addr)
BusReadOp(addr) ==
    /\ ~env.panicked
    /\ CountDataOp(addr)
    /\ LET r == BusRead(Machine, addr)
       IN  /\ Become(r.m)
           /\ last' = Did("read", addr, r.v)

\* the host calls Bus::write(addr, value)
BusWriteOp(addr, value) ==
    /\ ~env.panicked
    /\ CountDataOp(addr)
    /\ Become(BusWrite(Machine, addr, value))
    /\ last' = Did("write", addr, value)

\* the host calls Ppu::step(cycles); last.value is the bool it returns
PpuStep(cycles) ==
    /\ ~env.panicked
    /\ LET r == PpuStepFn(ppu, cycles)
       IN  /\ ppu' = r.p
           /\ last' = Did("ppu_step", 0, r.v)
    /\ UNCHANGED <<cpu, controller, ram, cartridge, env, data_ops, joypad, frame>>

\* what the callback handed to Cpu::step does to the Cpu
Inject(m, kind) ==
    CASE kind = "pause" -> [m EXCEPT !.controller.pause = TRUE]
      [] kind = "resume" -> [m EXCEPT !.controller.pause = FALSE]
      [] kind = "step" -> [m EXCEPT !.controller.step_mode = ~m.controller.step_mode,
                                    !.controller.pause = FALSE]
      [] OTHER -> m

InjectKinds == {"none", "pause", "resume"}

MaxCycle == 40

\* the host calls Cpu::step(inject)
CpuStep(kind) ==
    /\ ~env.panicked
    /\ cpu.cycle < MaxCycle
    /\ Become(CpuStepFn(Inject(Machine, kind)))
    /\ last' = Did("cpu_step", cpu.pc, kind)
    /\ UNCHANGED data_ops


----------------------------------------------------------------------------
(* SpecTiming: the host drives the PPU clock and writes $2000.             *)

\* PPU ticks per call: 0, and multiples of 31 (341 = 11 * 31) within u8
StepCycles == {0, 93, 248}

CtrlBytes == {0, 128}

TimingCart == Cart(PrgNmiLoop, 16384, "Vertical")

InitTiming == InitWith({TimingCart}, {TRUE})

NextTiming ==
    \/ \E n \in StepCycles : PpuStep(n)
    \/ \E v \in CtrlBytes : BusWriteOp(PPU_CTRL, v)
    \/ BusReadOp(PPU_STATUS)

SpecTiming == InitTiming /\ [][NextTiming]_vars

----------------------------------------------------------------------------
(* SpecStatus: the host drives the PPU clock, reads $2002 and writes the   *)
(* two latched registers $2005 and $2006.                                  *)

LatchBytes == {0}

NextStatus ==
    \/ PpuStep(248)
    \/ BusReadOp(PPU_STATUS)
    \/ \E v \in LatchBytes : BusWriteOp(PPU_SCROLL, v)
    \/ \E v \in LatchBytes : BusWriteOp(PPU_MAP_ADDR, v)

SpecStatus == InitTiming /\ [][NextStatus]_vars


----------------------------------------------------------------------------
(* SpecCpu: the host's main loop calls Cpu::step, and the PPU clock is     *)
(* driven through Ppu::step.                                               *)

CpuCarts == {Cart(PrgNmiLoop, 16384, "Vertical"), Cart(PrgCallRet, 32768, "Horizontal")}

InitCpu == InitWith(CpuCarts, {TRUE})

NextCpu ==
    \/ \E kind \in InjectKinds : CpuStep(kind)
    \/ PpuStep(248)

SpecCpu == InitCpu /\ [][NextCpu]_vars

----------------------------------------------------------------------------
(* Spec: the host drives the PPU address and data ports through the bus:   *)
(* $2006 and $2007, the increment bit of $2000, and the latch reset of     *)
(* $2002; pattern-table and palette addresses.                             *)

AddrBytes == {0, 16, 255}

DataBytes == {171}

IncrementBytes == {0, 4}

Init == InitWith({TimingCart}, BOOLEAN)

Next ==
    \/ \E v \in AddrBytes : BusWriteOp(PPU_MAP_ADDR, v)
    \/ \E v \in DataBytes : BusWriteOp(PPU_MAP_DATA, v)
    \/ \E v \in IncrementBytes : BusWriteOp(PPU_CTRL, v)
    \/ BusReadOp(PPU_MAP_DATA)
    \/ BusReadOp(PPU_STATUS)

Spec == Init /\ [][Next]_vars

----------------------------------------------------------------------------
(* SpecMirror: the same ports, over the four nametable quadrants and the   *)
(* three mirroring modes of the loader.                                    *)

NametableBytes == {32, 36, 40, 44}

NametableData == {171}

InitMirror == InitWith({Cart(PrgNmiLoop, 16384, mi) : mi \in Mirrorings}, BOOLEAN)

NextMirror ==
    \/ \E v \in NametableBytes : BusWriteOp(PPU_MAP_ADDR, v)
    \/ \E v \in NametableData : BusWriteOp(PPU_MAP_DATA, v)
    \/ BusReadOp(PPU_MAP_DATA)

SpecMirror == InitMirror /\ [][NextMirror]_vars

----------------------------------------------------------------------------
(* Claims about Ppu::step and the status register.                         *)

VBlank(p) == HasFlag(p.status, VBLANK_STARTED)

\* C3: a Ppu::step that moves the scanline counter from 240 to 241 sets
\* VBLANK_STARTED, clears SPRITE_ZERO_HIT and leaves an NMI latched exactly
\* when ctrl.GENERATE_NMI is set; a Ppu::step that makes any other scanline
\* transition, or none, does not set VBLANK_STARTED.
C3_VBlankStart ==
    [][last'.op = "ppu_step" =>
         IF ppu.scanline = 240 /\ ppu'.scanline = 241
         THEN /\ VBlank(ppu')
              /\ ~HasFlag(ppu'.status, SPRITE_ZERO_HIT)
              /\ (ppu'.nmi_interrupt # None) = HasFlag(ppu.ctrl, GENERATE_NMI)
         ELSE VBlank(ppu') => VBlank(ppu)]_vars

C3_Witness ==
    /\ last.op = "ppu_step"
    /\ ppu.scanline = 241
    /\ ppu.cycle < 248
    /\ VBlank(ppu)
    /\ ppu.nmi_interrupt = Some(1)

\* C4: Ppu::step(n) returns true exactly when it is called on scanline 261
\* with cycle + n >= 341 (the counter would reach 262); that call leaves
\* scanline = 0, VBLANK_STARTED clear and no NMI latched; every other call
\* returns false and moves the scanline counter up by at most one.
C4_FrameComplete ==
    [][\A n \in StepCycles :
         last'.op = "ppu_step" /\ PpuStep(n) =>
           /\ last'.value = (ppu.scanline = 261 /\ ppu.cycle + n >= 341)
           /\ last'.value =>
                /\ ppu'.scanline = 0
                /\ ~VBlank(ppu')
                /\ ppu'.nmi_interrupt = None
           /\ ~last'.value =>
                ppu'.scanline = ppu.scanline + (IF ppu.cycle + n >= 341 THEN 1 ELSE 0)]_vars

C4_Witness ==
    /\ last.op = "ppu_step"
    /\ last.value = TRUE
    /\ ppu.scanline = 0
    /\ HasFlag(ppu.ctrl, GENERATE_NMI)

\* C5: a bus read of $2002 returns the status byte as it was before the
\* read, clears VBLANK_STARTED and nothing else in it, and leaves the address
\* latch at high-byte-next and the scroll latch false; a $2002 read that
\* directly follows another returns bit 7 clear.
C5_StatusRead ==
    [][last'.op = "read" /\ last'.addr = PPU_STATUS =>
         /\ last'.value = ppu.status
         /\ ppu'.status = ppu.status - BitAnd(ppu.status, VBLANK_STARTED)
         /\ ppu'.addr.high_byte = TRUE
         /\ ppu'.scroll.latch = FALSE
         /\ (last.op = "read" /\ last.addr = PPU_STATUS) => BitAnd(last'.value, 128) = 0]_vars

\* a $2002 read taken during VBlank
C5_Witness ==
    /\ last.op = "read"
    /\ last.addr = PPU_STATUS
    /\ BitAnd(last.value, 128) = 128
    /\ ppu.scanline >= 241


----------------------------------------------------------------------------
(* Claims about Cpu::step and the PPU clock, checked under SpecCpu.        *)

\* the Cpu::step that made `l` ran an instruction: inject left pause clear
Executes(l) == l.op = "cpu_step" /\ ~Inject(Machine, l.value).controller.pause

\* the PPU clock as one tick count within the frame
PpuTicks(p) == p.scanline * 341 + p.cycle

\* C1: a Cpu::step taken while the PPU has an NMI latched services it before
\* the fetch: the latch is cleared, pc (high byte first) and the status byte
\* with U set and B clear are on the stack, and at least 7 cycles are added.
C1_NmiServiced ==
    [][Executes(last') /\ ppu.nmi_interrupt # None /\ ~env'.panicked =>
         /\ ppu'.nmi_interrupt = None
         /\ Rd(ram', 256 + cpu.sp) = cpu.pc \div 256
         /\ Rd(ram', 256 + U8(cpu.sp + 255)) = cpu.pc % 256
         /\ Rd(ram', 256 + U8(cpu.sp + 254))
              = BitOr(cpu.status, FlagU) - BitAnd(cpu.status, FlagB)
         /\ cpu'.cycle >= cpu.cycle + 7]_vars

\* C2: a Cpu::step that executes an instruction advances the PPU clock by
\* three ticks for each cycle it adds to cpu.cycle.
C2_PpuAdvances ==
    [][Executes(last') /\ ~env'.panicked =>
         PpuTicks(ppu') = (PpuTicks(ppu) + 3 * (cpu'.cycle - cpu.cycle)) % (262 * 341)]_vars

----------------------------------------------------------------------------
(* Claims about the PPU address and data ports, checked under Spec.        *)

Wrote2006(l) == l.op = "write" /\ l.addr = PPU_MAP_ADDR

DataPortOp(l) == l.op \in {"read", "write"} /\ IsDataPort(l.addr)

\* C6: in every state reached by $2006 writes and $2007 reads and writes,
\* with either increment setting, the address register holds a value below
\* 0x4000.
C6_AddrBelow4000 == AddrGet(ppu.addr) < 16384

\* a high byte of $FF has just been written and stands masked to $3F
C6_Witness ==
    /\ Wrote2006(last)
    /\ last.value = 255
    /\ ~ppu.addr.high_byte
    /\ ppu.addr.value0 = 63

\* C7: the address latch starts at high-byte-next and is there after a $2002
\* read; every $2006 write flips it; and a $2006 write of lo that directly
\* follows a $2006 write of hi made at high-byte-next leaves the register at
\* ((hi << 8) | lo) & 0x3FFF with the latch back at high-byte-next.
C7_AddrLatch ==
    [][/\ last.op = "new" => ppu.addr.high_byte
       /\ last'.op = "read" /\ last'.addr = PPU_STATUS => ppu'.addr.high_byte
       /\ Wrote2006(last') => ppu'.addr.high_byte = ~ppu.addr.high_byte
       /\ Wrote2006(last') /\ Wrote2006(last) /\ ~ppu.addr.high_byte =>
            /\ AddrGet(ppu'.addr) = BitAnd(last.value * 256 + last'.value, 16383)
            /\ ppu'.addr.high_byte]_vars

\* hi = $FF then lo = $10 have been written: the register holds $3F10
C7_Witness ==
    /\ Wrote2006(last)
    /\ last.value = 16
    /\ ppu.addr.high_byte
    /\ AddrGet(ppu.addr) = 16144

\* C8: every $2007 read and every $2007 write moves the address register
\* forward by 32 when ctrl.VRAM_ADD_INCREMENT is set and by 1 when it is
\* clear, modulo 0x4000, in every region of the PPU address space.
C8_Increment ==
    [][DataPortOp(last') =>
         AddrGet(ppu'.addr)
           = (AddrGet(ppu.addr)
              + (IF HasFlag(ppu.ctrl, VRAM_ADD_INCREMENT) THEN 32 ELSE 1)) % 16384]_vars

\* a $2007 read at $3FFF with the increment at 32 has wrapped to $001F
C8_Witness ==
    /\ last.op = "read"
    /\ IsDataPort(last.addr)
    /\ HasFlag(ppu.ctrl, VRAM_ADD_INCREMENT)
    /\ AddrGet(ppu.addr) = 31

\* C9: a $2007 read with the address register at a pattern-table address a,
\* $0000 to $1FFF, returns what data_buffer held and loads data_buffer with
\* chr_rom[a].
C9_ChrRead ==
    [][last'.op = "read" /\ IsDataPort(last'.addr) /\ AddrGet(ppu.addr) <= 8191
       /\ ~env'.panicked =>
         /\ last'.value = ppu.data_buffer
         /\ ppu'.data_buffer = Rd(ppu.chr_rom, AddrGet(ppu.addr))]_vars

----------------------------------------------------------------------------
(* The claim about nametable mirroring, checked under SpecMirror.          *)

Quadrant(a) == (a - 8192) \div 1024

\* the physical table of a quadrant: 0,1,0,1 Vertical and 0,0,1,1 Horizontal
PhysicalTable(mirroring, q) == IF mirroring = "Vertical" THEN q % 2 ELSE q \div 2

\* the byte a $2007 read at address b loads into data_buffer, hence the byte
\* the read after it returns
Loads(p, b) ==
    read_data([Machine EXCEPT !.ppu = [p EXCEPT !.addr = AddrSet(p.addr, b)]]).m.ppu.data_buffer

\* in each quadrant, the address at the offset of a and the one after it
Probes(a) == {8192 + q * 1024 + o : q \in 0..3, o \in {a % 1024, (a + 1) % 1024}}

\* C10: under Vertical and Horizontal mirroring, a $2007 write of a byte at a
\* nametable address a does not fail, and afterwards a buffered $2007 read
\* loads that byte at every address with the offset of a in a quadrant of
\* the same physical table, and loads what it loaded before at the other
\* addresses; a $2007 read at a nametable address returns what data_buffer
\* held.
C10_Mirroring ==
    [][DataPortOp(last') /\ AddrGet(ppu.addr) \in VRAM_BEGIN..VRAM_END
       /\ ppu.mirroring \in {"Vertical", "Horizontal"} =>
         LET a == AddrGet(ppu.addr)
         IN  /\ ~env'.panicked
             /\ last'.op = "read" => last'.value = ppu.data_buffer
             /\ last'.op = "write" =>
                  \A b \in Probes(a) :
                    Loads(ppu', b)
                      = IF b % 1024 = a % 1024
                           /\ PhysicalTable(ppu.mirroring, Quadrant(b))
                                = PhysicalTable(ppu.mirroring, Quadrant(a))
                        THEN last'.value
                        ELSE Loads(ppu, b)]_vars

\* Vertical: $AB written at $2420 alone has come back from the second of two
\* reads at $2C20
C10_Witness ==
    /\ ppu.mirroring = "Vertical"
    /\ last.op = "read"
    /\ IsDataPort(last.addr)
    /\ last.value = 171
    /\ AddrGet(ppu.addr) = 11298
    /\ DOMAIN ppu.vram = {1056}

----------------------------------------------------------------------------
(* SpecPalette: the host drives $2006 and $2007 over the palette pages and *)
(* their mirrors, with pattern-table and unmapped addresses beside them.   *)

PaletteBytes == {0, 16, 48, 63}

PaletteData == {171, 205}

NextPalette ==
    \/ \E v \in PaletteBytes : BusWriteOp(PPU_MAP_ADDR, v)
    \/ \E v \in PaletteData : BusWriteOp(PPU_MAP_DATA, v)
    \/ BusReadOp(PPU_MAP_DATA)

SpecPalette == Init /\ [][NextPalette]_vars

----------------------------------------------------------------------------
(* The claim about palette reads and writes, checked under SpecPalette.    *)

\* the palette entry of an address: addr & 0x1F, with 0x10/0x14/0x18/0x1C
\* mapped to 0x00/0x04/0x08/0x0C
PaletteEntry(a) ==
    IF a % 32 \in {16, 20, 24, 28} THEN (a % 32) - 16 ELSE a % 32

\* the byte a $2007 read at address b returns
Reads(p, b) ==
    read_data([Machine EXCEPT !.ppu = [p EXCEPT !.addr = AddrSet(p.addr, b)]]).v

\* the palette addresses probed: both ends of every 32-byte mirror, and the
\* four mirrored entries with the entries they mirror
PaletteProbes ==
    {16128 + 32 * k + o : k \in 0..7, o \in {0, 1, 4, 8, 12, 15, 16, 17, 20, 24, 28, 31}}

\* C11: a $2007 read at a palette address returns the palette entry of
\* that address at once, not data_buffer; palette_mirror maps an address to
\* addr & 0x1F with 0x10/0x14/0x18/0x1C taken to 0x00/0x04/0x08/0x0C; after
\* any $2007 access a read at $3F10/$3F14/$3F18/$3F1C returns what a read at
\* $3F00/$3F04/$3F08/$3F0C returns; and a byte written at a palette address
\* is what the first read at that address returns.
C11_PaletteRead ==
    [][DataPortOp(last') =>
         LET a == AddrGet(ppu.addr)
         IN  /\ \A b \in PaletteProbes : palette_mirror(b) = PaletteEntry(b)
             /\ \A k \in {0, 4, 8, 12} : Reads(ppu', 16144 + k) = Reads(ppu', 16128 + k)
             /\ a \in PALETTE_BEGIN..PALETTE_END =>
                  /\ ~env'.panicked
                  /\ last'.op = "read" =>
                       last'.value = Rd(ppu.palette_table, PaletteEntry(a))
                  /\ last'.op = "write" => Reads(ppu', a) = last'.value]_vars

\* $AB written to palette entry 0 alone has come back from a read at $3F10,
\* while data_buffer holds another byte
C11_Witness ==
    /\ last.op = "read"
    /\ IsDataPort(last.addr)
    /\ last.value = 171
    /\ AddrGet(ppu.addr) = 16145
    /\ DOMAIN ppu.palette_table = {0}
    /\ ppu.data_buffer # 171

----------------------------------------------------------------------------
(* SpecBus: the host reads and writes through the bus at RAM addresses and *)
(* their mirrors, and at PPU registers and their mirrors.                  *)

\* $0001 and a mirror; $2002, $2006, $2007 each with a mirror
BusAddrs == {1, 6145, 8194, 8202, 8198, 16382, 8199, 16383}

BusValues == {63}

InitBus == InitWith({TimingCart}, {TRUE})

NextBus ==
    \/ \E a \in BusAddrs : BusReadOp(a)
    \/ \E a \in BusAddrs, v \in BusValues : BusWriteOp(a, v)

SpecBus == InitBus /\ [][NextBus]_vars

----------------------------------------------------------------------------
(* The claim about address decoding, checked under SpecBus.                *)

\* addresses of the RAM range with the low 11 bits of a
RamMirrors(a) == {(a % 2048) + 2048 * k : k \in 0..3}

\* addresses of the PPU register range with the low 3 bits of a: the first
\* mirror and the last
RegisterMirrors(a) == {8192 + (a % 8) + 8 * k : k \in {1, 1023}}

RamProbes == {1, 2047}

\* C12: bus decoding is mirror-invariant.  Reads through two addresses of
\* the RAM range with equal low 11 bits are equal, and a byte written through
\* one is read back through the other; a read or a write at an address of
\* $2000-$3FFF has the result and the effect of the same access at every
\* address of that range with the same low 3 bits.
C12_MirrorInvariant ==
    [][last'.op \in {"read", "write"} =>
         /\ last'.addr \in RAM_BEGIN..RAM_END =>
              \A a \in RamProbes : \A b \in RamMirrors(a) :
              /\ BusRead(Machine, b) = BusRead(Machine, a)
              /\ \A v \in BusValues :
                   BusRead(BusWrite(Machine, a, v), b) = Ret(BusWrite(Machine, b, v), v)
         /\ last'.addr \in PPU_CTRL..PPU_REGISTER_END =>
              \A r \in 0..7 : \A b \in RegisterMirrors(r) :
              /\ BusRead(Machine, b) = BusRead(Machine, 8192 + r)
              /\ \A v \in BusValues :
                   BusWrite(Machine, b, v) = BusWrite(Machine, 8192 + r, v)
         /\ last'.addr \in RAM_BEGIN..RAM_END /\ last'.op = "write" =>
              \A b \in RamMirrors(last'.addr) : BusRead(Machine', b).v = last'.value
         /\ last'.addr \in RAM_BEGIN..RAM_END /\ last'.op = "read" =>
              last'.value = Rd(ram, last'.addr % 2048)
         /\ last'.addr \in PPU_CTRL..PPU_REGISTER_END /\ last'.op = "read" =>
              Ret(Machine', last'.value) = BusRead(Machine, 8192 + (last'.addr % 8))
         /\ last'.addr \in PPU_CTRL..PPU_REGISTER_END /\ last'.op = "write" =>
              Machine' = BusWrite(Machine, 8192 + (last'.addr % 8), last'.value)]_vars

\* $3F written through $0001 has been read back through $1801, and a write
\* through $3FFE has moved the address latch
C12_Witness ==
    /\ last = Did("read", 6145, 63)
    /\ ~ppu.addr.high_byte
    /\ ppu.addr.value0 = 63

----------------------------------------------------------------------------
(* SpecDma: the host fills two bytes of RAM page 2, sets the OAM address   *)
(* and starts OAM DMA from a RAM page, a RAM mirror page, the PPU register *)
(* page (while the PPU address is 0), an unmapped page and a PRG ROM page.  *)

DmaRamAddrs == {512, 767}

DmaRamBytes == {17}

OamAddrBytes == {1, 255}

\* $02, $0A (a mirror of $02), $20, $40, $80
DmaPages == {2, 10, 32, 64, 128}

NextDma ==
    \/ \E a \in DmaRamAddrs, v \in DmaRamBytes : BusWriteOp(a, v)
    \/ \E v \in OamAddrBytes : BusWriteOp(PPU_OAM_ADDR, v)
    \/ \E v \in DmaPages :
          /\ v = 32 => AddrGet(ppu.addr) = 0
          /\ BusWriteOp(PPU_OAM_DMA, v)

SpecDma == InitTiming /\ [][NextDma]_vars

----------------------------------------------------------------------------
(* The claim about OAM DMA, checked under SpecDma.                         *)

\* the byte the i-th bus read of the DMA returns, from the state p before the
\* write.  Reads of RAM, PRG ROM and unmapped addresses leave the state as it
\* is.  In the register page the reads of $2002 clear VBLANK_STARTED, the
\* reads of $2004 see OAM before any store, and the k-th read of $2007
\* returns data_buffer (k = 0) or the pattern byte the read before it loaded.
DmaByte(page, i) ==
    IF page # 32 THEN BusRead(Machine, page * 256 + i).v
    ELSE CASE i % 8 = 2 ->
                IF i = 2 THEN ppu.status ELSE SetFlag(ppu.status, VBLANK_STARTED, FALSE)
           [] i % 8 = 4 -> Rd(ppu.oam_data, ppu.oam_addr)
           [] i % 8 = 7 ->
                IF i = 7 THEN ppu.data_buffer
                ELSE Rd(ppu.chr_rom, AddrGet(ppu.addr) + (i \div 8) - 1)
           [] OTHER -> 0

\* C13: a bus write of V to $4014 stores the byte of the i-th bus read,
\* of address (V << 8) + i, at oam_data[(a0 + i) mod 256] for every i in
\* 0..255, a0 being oam_addr before the write, and leaves oam_addr = a0.
C13_OamDma ==
    [][last'.op = "write" /\ last'.addr = PPU_OAM_DMA
       /\ (last'.value = 32 => AddrGet(ppu.addr) + 32 <= CHR_ROM_END) =>
         /\ ~env'.panicked
         /\ ppu'.oam_addr = ppu.oam_addr
         /\ \A i \in 0..255 :
              Rd(ppu'.oam_data, (ppu.oam_addr + i) % 256) = DmaByte(last'.value, i)]_vars

\* DMA from RAM page 2 through its mirror with oam_addr = 255: the byte of
\* $0200 stands at OAM 255 and the byte of $02FF at OAM 254
C13_Witness ==
    /\ last = Did("write", PPU_OAM_DMA, 10)
    /\ ppu.oam_addr = 255
    /\ Rd(ram, 512) = 17
    /\ Rd(ram, 767) = 17
    /\ DOMAIN ppu.oam_data = {254, 255}

----------------------------------------------------------------------------
(* SpecCpuDma: the main loop over a program that starts OAM DMA, with the  *)
(* OAM address set from outside.                                           *)

\* PRG ROM, 16 KiB.  Reset at $8000:
\*   LDA #$02 ; STA $4014 ; INX ; STX $0200 ; JMP $8000      NMI/IRQ at $8010: RTI
PrgDma ==
    Place(0, <<169, 2, 141, 20, 64, 232, 142, 0, 2, 76, 0, 128>>) @@ Place(16, <<64>>)
    @@ Place(16378, <<16, 128, 0, 128, 16, 128>>)

InitCpuDma == InitWith({Cart(PrgDma, 16384, "Vertical")}, BOOLEAN)

NextCpuDma ==
    \/ \E kind \in InjectKinds : CpuStep(kind)
    \/ \E v \in OamAddrBytes : BusWriteOp(PPU_OAM_ADDR, v)

SpecCpuDma == InitCpuDma /\ [][NextCpuDma]_vars

\* the instruction at pc is STA $4014
StoresToDma(m) ==
    BusRead(m, m.cpu.pc).v = 141 /\ read_u16(m, U16(m.cpu.pc + 1)).v = PPU_OAM_DMA

\* C14: the Cpu::step that executes a store to $4014 adds the 4 cycles of
\* the store and 513 stall cycles, 514 when cpu.cycle is odd, to cpu.cycle.
C14_DmaStall ==
    [][Executes(last') /\ StoresToDma(Machine) /\ ~env'.panicked =>
         cpu'.cycle = cpu.cycle + 4 + (IF cpu.cycle % 2 = 1 THEN 514 ELSE 513)]_vars

----------------------------------------------------------------------------
(* SpecReadOnly: the host writes through the bus at PRG ROM, at $2002 and  *)
(* at $2007 with the PPU address in the pattern tables and out of them.    *)

BusCarts == {Cart(PrgNmiLoop, 16384, "Vertical"), Cart(PrgCallRet, 32768, "Horizontal")}

ReadOnlyAddrs == {PPU_STATUS, 8202, PRG_ROM_BEGIN, 49152, PRG_ROM_END}

ReadOnlyBytes == {171}

PatternBytes == {0, 16, 32}

NextReadOnly ==
    \/ \E a \in ReadOnlyAddrs, v \in ReadOnlyBytes : BusWriteOp(a, v)
    \/ \E v \in PatternBytes : BusWriteOp(PPU_MAP_ADDR, v)
    \/ \E v \in ReadOnlyBytes : BusWriteOp(PPU_MAP_DATA, v)
    \/ \E a \in {PPU_MAP_DATA, PRG_ROM_BEGIN} : BusReadOp(a)

InitReadOnly == InitWith(BusCarts, BOOLEAN)

SpecReadOnly == InitReadOnly /\ [][NextReadOnly]_vars

\* C15: a bus write at $8000-$FFFF or at $2002 (or a mirror of it) changes
\* nothing; a $2007 write with the PPU address in $0000-$1FFF moves the
\* address register by the increment and changes nothing else, and does not
\* abort; no bus operation changes prg_rom or chr_rom.
C15_ReadOnlyWrites ==
    [][last'.op \in {"read", "write"} =>
         /\ cartridge' = cartridge
         /\ ppu'.chr_rom = ppu.chr_rom
         /\ last'.op = "write"
            /\ (last'.addr >= PRG_ROM_BEGIN
                \/ (last'.addr \in PPU_CTRL..PPU_REGISTER_END /\ last'.addr % 8 = 2)) =>
              Machine' = Machine
         /\ last'.op = "write" /\ IsDataPort(last'.addr) /\ AddrGet(ppu.addr) <= 8191 =>
              /\ ~env'.panicked
              /\ AddrGet(ppu'.addr) = (AddrGet(ppu.addr) + vram_addr_increment(ppu.ctrl)) % 16384
              /\ Machine' = [Machine EXCEPT !.ppu.addr = ppu'.addr]
              /\ ppu'.addr.high_byte = ppu.addr.high_byte]_vars

----------------------------------------------------------------------------
(* SpecReset: construction over PRG images of both sizes that differ in    *)
(* their reset vector, followed by the main loop.                          *)

VectorLow == {0, 52, 255}

VectorHigh == {18, 128, 255}

PrgSizes == {16384, 32768}

\* a PRG image of BRKs with the reset vector lo, hi in its last bytes but two
PrgReset(len, lo, hi) == Place(len - 4, <<lo, hi>>)

ResetCarts ==
    {Cart(PrgReset(len, lo, hi), len, "Vertical") :
        len \in PrgSizes, lo \in VectorLow, hi \in VectorHigh}

InitReset == InitWith(ResetCarts, BOOLEAN)

NextReset == \E kind \in InjectKinds : CpuStep(kind)

SpecReset == InitReset /\ [][NextReset]_vars

\* C16: a freshly constructed CPU has sp = $FD, status = U | I = $24,
\* cycle = 7, A = X = Y = 0, and pc the little-endian word of the bytes the
\* bus returns at $FFFC and $FFFD: PRG offsets $3FFC, $3FFD of a 16 KiB image
\* and $7FFC, $7FFD of a 32 KiB image.
C16_Reset ==
    last.op = "new" =>
        /\ cpu.sp = 253
        /\ cpu.status = 36
        /\ cpu.cycle = 7
        /\ cpu.r_a = 0 /\ cpu.r_x = 0 /\ cpu.r_y = 0
        /\ cpu.pc = Rd(cartridge.prg_rom, cartridge.prg_len - 4)
                    + 256 * Rd(cartridge.prg_rom, cartridge.prg_len - 3)
        /\ cpu.pc = BusRead(Machine, 65532).v + 256 * BusRead(Machine, 65533).v
        /\ ~env.panicked

\* a 16 KiB image with $34, $12 at offsets $3FFC, $3FFD: pc = $1234
C16_Witness ==
    /\ last.op = "new"
    /\ cartridge.prg_len = 16384
    /\ Rd(cartridge.prg_rom, 16380) = 52
    /\ Rd(cartridge.prg_rom, 16381) = 18
    /\ cpu.pc = 4660

----------------------------------------------------------------------------
(* SpecStack: Cpu::push and Cpu::pop called any number of times.  A zero   *)
(* byte is pushed anywhere, a non-zero byte at the two ends of the stack   *)
(* page and at the reset position.                                         *)

StackBytes == {0, 171}

StackTops == {0, 253, 255}

\* a caller invokes Cpu::push(data)
PushOp(data) ==
    /\ ~env.panicked
    /\ Become(push(Machine, data))
    /\ last' = Did("push", 0, data)
    /\ UNCHANGED data_ops

\* a caller invokes Cpu::pop(); last.value is the byte it returns
PopOp ==
    /\ ~env.panicked
    /\ LET r == pop(Machine)
       IN  /\ Become(r.m)
           /\ last' = Did("pop", 0, r.v)
    /\ UNCHANGED data_ops

NextStack ==
    \/ \E v \in StackBytes : (v # 0 => cpu.sp \in StackTops) /\ PushOp(v)
    \/ PopOp

SpecStack == InitTiming /\ [][NextStack]_vars

StackWords == {4660, 65280, 43981}

\* w is m after push_u16(v): the high byte stands at $0100 | sp and the low
\* byte below it, nothing outside $0100-$01FF differs, and pop_u16 returns v
\* and leaves sp as it was in m
WordRoundTrip(m, w, v) ==
    /\ Rd(w.ram, 256 + m.cpu.sp) = v \div 256
    /\ Rd(w.ram, 256 + ((m.cpu.sp + 255) % 256)) = v % 256
    /\ w.cpu.sp = (m.cpu.sp + 254) % 256
    /\ [w EXCEPT !.ram = [i \in DOMAIN w.ram \ (256..511) |-> w.ram[i]], !.cpu.sp = 0]
         = [m EXCEPT !.ram = [i \in DOMAIN m.ram \ (256..511) |-> m.ram[i]], !.cpu.sp = 0]
    /\ pop_u16(w) = Ret([w EXCEPT !.cpu.sp = m.cpu.sp], v)

\* C17: sp stays a byte by wrapping; a push stores at $0100 | sp and then
\* decrements sp, a pop increments sp and then reads $0100 | sp, and neither
\* touches anything outside $0100-$01FF; push_u16 stores the high byte first,
\* and pop_u16 after push_u16(v) returns v with sp as it was.
C17_Stack ==
    [][last'.op \in {"push", "pop"} =>
         /\ cpu'.sp \in 0..255
         /\ ~env'.panicked
         /\ last'.op = "push" =>
              Machine' = [Machine EXCEPT !.ram = Wr(ram, 256 + cpu.sp, last'.value),
                                         !.cpu.sp = (cpu.sp + 255) % 256]
         /\ last'.op = "pop" =>
              /\ Machine' = [Machine EXCEPT !.cpu.sp = (cpu.sp + 1) % 256]
              /\ last'.value = Rd(ram, 256 + cpu'.sp)
         /\ \A v \in StackWords : WordRoundTrip(Machine', push_u16(Machine', v), v)]_vars

\* three pops from $FD have wrapped sp to $00, and a push there has stored at
\* $0100 and wrapped sp to $FF
C17_Witness ==
    /\ last = Did("push", 0, 171)
    /\ cpu.sp = 255
    /\ DOMAIN ram = {256}

----------------------------------------------------------------------------
(* SpecStackOps: the main loop over programs that load A and SP with a     *)
(* pair of bytes and run the stack instructions.                           *)

AccBytes == {0, 127, 128, 195, 255}

SpBytes == {0, 1, 253, 255}

\* PRG ROM, 16 KiB.  Reset at $8000:
\*   LDA #a ; LDX #x ; TXS ; PHA ; PLA ; PHA ; PLP ; PHP ; PLP ; PHP ; BRK
\*   NMI/IRQ at $8020: RTI
PrgStackOps(a, x) ==
    Place(0, <<169, a, 162, x, 154, 72, 104, 72, 40, 8, 40, 8, 0>>) @@ Place(32, <<64>>)
    @@ Place(16378, <<32, 128, 0, 128, 32, 128>>)

StackOpsCarts ==
    {Cart(PrgStackOps(a, x), 16384, "Vertical") : a \in AccBytes, x \in SpBytes}

InitStackOps == InitWith(StackOpsCarts, BOOLEAN)

NextStackOps == \E kind \in InjectKinds : CpuStep(kind)

SpecStackOps == InitStackOps /\ [][NextStackOps]_vars

\* the opcode the next Cpu::step of m fetches
Opcode(m) == BusRead(m, m.cpu.pc).v

\* C18: the status byte that PHP or BRK stores on the stack is the live
\* status with U ($20) and B ($10) set, and the live B bit is after the
\* instruction what it was before.
C18_PushedStatus ==
    [][Executes(last') /\ Opcode(Machine) \in {0, 8} =>
         LET at == IF Opcode(Machine) = 8 THEN cpu.sp ELSE (cpu.sp + 254) % 256
             pushed == Rd(ram', 256 + at)
         IN  /\ ~env'.panicked
             /\ BitAnd(pushed, 48) = 48
             /\ pushed = BitOr(cpu.status, 48)
             /\ HasFlag(cpu'.status, FlagB) = HasFlag(cpu.status, FlagB)]_vars

\* BRK has run with N, V, Z, C live and sp = $FF: $F3 stands at $01FD
C18_Witness ==
    /\ last.op = "cpu_step"
    /\ last.addr = 32780
    /\ cpu.pc = 32800
    /\ cpu.sp = 252
    /\ Rd(ram, 509) = 243
    /\ ~HasFlag(cpu.status, FlagB)

\* the machine after the Cpu::step that follows, with nothing injected
Then(m) == CpuStepFn(m)

\* C19: PHA directly followed by PLA leaves A and SP as they were before
\* the PHA, with Z = (A = 0) and N = bit 7 of A.
C19_PhaPla ==
    [][Executes(last') /\ Opcode(Machine) = 72 /\ Opcode(Machine') = 104 =>
         /\ ~Then(Machine').env.panicked
         /\ Then(Machine').cpu.r_a = cpu.r_a
         /\ Then(Machine').cpu.sp = cpu.sp
         /\ HasFlag(Then(Machine').cpu.status, FlagZ) = (cpu.r_a = 0)
         /\ HasFlag(Then(Machine').cpu.status, FlagN) = (cpu.r_a >= 128)]_vars

\* PHA and PLA have run with A = $80 and sp = $00, Z being set before them
C19_Witness ==
    /\ last.op = "cpu_step"
    /\ last.addr = 32774
    /\ cpu.pc = 32775
    /\ cpu.r_a = 128
    /\ cpu.sp = 0
    /\ HasFlag(cpu.status, FlagN)
    /\ ~HasFlag(cpu.status, FlagZ)

\* the flags C, Z, I, D, V, N of a status byte
Flags(status) == BitAnd(status, 207)

\* C20: PHP directly followed by PLP leaves C, Z, I, D, V, N and SP as they
\* were before the PHP, with B clear and U set in the live status.
C20_PhpPlp ==
    [][Executes(last') /\ Opcode(Machine) = 8 /\ Opcode(Machine') = 40 =>
         /\ ~Then(Machine').env.panicked
         /\ Flags(Then(Machine').cpu.status) = Flags(cpu.status)
         /\ ~HasFlag(Then(Machine').cpu.status, FlagB)
         /\ HasFlag(Then(Machine').cpu.status, FlagU)
         /\ Then(Machine').cpu.sp = cpu.sp]_vars

\* PHP and PLP have run with N, V, Z, C live and sp = $01
C20_Witness ==
    /\ last.op = "cpu_step"
    /\ last.addr = 32778
    /\ cpu.pc = 32779
    /\ cpu.status = 227
    /\ cpu.sp = 1
    /\ Rd(ram, 257) = 243

----------------------------------------------------------------------------
(* SpecCall: the main loop over programs that set SP and call a balanced   *)
(* subroutine, the JSR standing at the start or at the end of a page.      *)

\* offsets of the program in the image: the JSR stands at $8003 or at $80FD
CallOffsets == {0, 250}

\* PRG ROM, 16 KiB.  Reset at $8000 + at:
\*   LDX #x ; TXS ; JSR $8200 ; NOP        $8200: PHA ; PLA ; RTS
PrgCall(at, x) ==
    Place(at, <<162, x, 154, 32, 0, 130, 234>>) @@ Place(512, <<72, 104, 96>>)
    @@ Place(16378, <<0, 131, at, 128, 0, 131>>) @@ Place(768, <<64>>)

CallCarts == {Cart(PrgCall(at, x), 16384, "Vertical") : at \in CallOffsets, x \in SpBytes}

InitCall == InitWith(CallCarts, BOOLEAN)

SpecCall == InitCall /\ [][NextStackOps]_vars

\* m run until the step that executes its next RTS, within n steps
RECURSIVE Returned(_, _)
Returned(m, n) ==
    IF Opcode(m) = 96 \/ n = 0 THEN Then(m) ELSE Returned(Then(m), n - 1)

\* C21: a JSR at p stores p + 2 on the stack, high byte first, and jumps
\* to its target; the RTS of a subroutine that leaves the stack balanced
\* sets pc to p + 3 and leaves sp as it was before the JSR; an RTS sets pc
\* to the word it pops plus one.
C21_JsrRts ==
    [][Executes(last') /\ ~env'.panicked =>
         /\ Opcode(Machine) = 32 =>
              /\ Rd(ram', 256 + cpu.sp) = (cpu.pc + 2) \div 256
              /\ Rd(ram', 256 + ((cpu.sp + 255) % 256)) = (cpu.pc + 2) % 256
              /\ cpu'.sp = (cpu.sp + 254) % 256
              /\ cpu'.pc = read_u16(Machine, cpu.pc + 1).v
              /\ Returned(Machine', 3).cpu.pc = cpu.pc + 3
              /\ Returned(Machine', 3).cpu.sp = cpu.sp
              /\ ~Returned(Machine', 3).env.panicked
         /\ Opcode(Machine) = 96 =>
              /\ cpu'.sp = (cpu.sp + 2) % 256
              /\ cpu'.pc = (Rd(ram, 256 + ((cpu.sp + 1) % 256))
                            + 256 * Rd(ram, 256 + cpu'.sp) + 1) % 65536]_vars

\* the RTS of the call made at $80FD with sp = $00 has returned to $8100
C21_Witness ==
    /\ last.op = "cpu_step"
    /\ last.addr = 33282
    /\ cpu.pc = 33024
    /\ cpu.sp = 0
    /\ Rd(ram, 256) = 128
    /\ Rd(ram, 511) = 255

----------------------------------------------------------------------------
(* SpecBranch: the main loop over programs of conditional branches, placed *)
(* inside a page or across the end of one.                                 *)

\* PRG ROM, 16 KiB.  Reset at $8000 + at:
\*   LDA #a ; BEQ +4 ; BMI +2 ; NOP ; NOP ; BNE -10 ; JMP $8000 + at
PrgBranch(at, a) ==
    Place(at, <<169, a, 240, 4, 48, 2, 234, 234, 208, 246, 76, at, 128>>)
    @@ Place(768, <<64>>) @@ Place(16378, <<0, 131, at, 128, 0, 131>>)

BranchCarts == {Cart(PrgBranch(at, a), 16384, "Vertical") : at \in CallOffsets, a \in {0, 1, 128}}

InitBranch == InitWith(BranchCarts, BOOLEAN)

SpecBranch == InitBranch /\ [][NextStackOps]_vars

\* the opcodes of BPL, BMI, BVC, BVS, BCC, BCS, BNE and BEQ
BranchOpcodes == {16, 48, 80, 112, 144, 176, 208, 240}

\* the predicate of the branch at m's pc holds
Taken(m) ==
    LET flag == CASE Opcode(m) \in {16, 48}   -> FlagN
                  [] Opcode(m) \in {80, 112}  -> FlagV
                  [] Opcode(m) \in {144, 176} -> FlagC
                  [] OTHER                    -> FlagZ
    IN  HasFlag(m.cpu.status, flag) = (Opcode(m) \in {48, 112, 176, 240})

\* C22: a conditional branch that is not taken costs 2 cycles; a taken one
\* costs 3 when its target is in the page of the following instruction and
\* 4 when it is in another page.
C22_BranchCycles ==
    [][Executes(last') /\ Opcode(Machine) \in BranchOpcodes /\ ~env'.panicked =>
         cpu'.cycle - cpu.cycle =
             IF ~Taken(Machine) THEN 2
             ELSE IF page_cross(U16(cpu.pc + 2), cpu'.pc) THEN 4 ELSE 3]_vars

\* the part of C22 that the code follows: 2 cycles not taken, 3 taken
C22_SamePage ==
    [][Executes(last') /\ Opcode(Machine) \in BranchOpcodes /\ ~env'.panicked
         /\ (Taken(Machine) => ~page_cross(U16(cpu.pc + 2), cpu'.pc)) =>
         cpu'.cycle - cpu.cycle = IF Taken(Machine) THEN 3 ELSE 2]_vars

----------------------------------------------------------------------------
(* SpecIndexed: the main loop over programs that run one indexed read or   *)
(* store from the base $12F0 (absolute) or $00F0 (through the pointer at   *)
(* $10), with both index registers set to the same value.                  *)

ReadOperations == {"ADC", "AND", "CMP", "EOR", "LDA", "LDX", "LDY", "ORA", "SBC"}

StoreOperations == {"STA", "STX", "STY"}

IndexedModes == {"AbsX", "AbsY", "IndY"}

\* the opcodes of the decode table for these operations in these modes
IndexedOpcodes ==
    {o \in ListedOpcodes :
        /\ from_u8(o).operation \in ReadOperations \cup StoreOperations
        /\ from_u8(o).address_mode \in IndexedModes}

\* the index values: $F0 + $0F stays in the page, $F0 + $10 leaves it
IndexBytes == {0, 15, 16, 32}

\* PRG ROM, 16 KiB.  Reset at $8000:
\*   LDA #$F0 ; STA $10 ; LDX #x ; LDY #x ; o $12F0,X / o $12F0,Y / o ($10),Y
PrgIndexed(o, x) ==
    Place(0, <<169, 240, 133, 16, 162, x, 160, x, o>>)
    @@ Place(9, IF from_u8(o).address_mode = "IndY" THEN <<16>> ELSE <<240, 18>>)
    @@ Place(768, <<64>>) @@ Place(16378, <<0, 131, 0, 128, 0, 131>>)

IndexedCarts ==
    {Cart(PrgIndexed(o, x), 16384, "Vertical") : o \in IndexedOpcodes, x \in IndexBytes}

InitIndexed == InitWith(IndexedCarts, BOOLEAN)

SpecIndexed == InitIndexed /\ [][NextStackOps]_vars

\* the un-indexed base address of the indexed instruction at m's pc
IndexBase(m) ==
    IF from_u8(Opcode(m)).address_mode = "IndY"
    THEN read_u16_zp(m, BusRead(m, U16(m.cpu.pc + 1)).v).v
    ELSE read_u16(m, U16(m.cpu.pc + 1)).v

\* its index register
IndexOf(m) ==
    IF from_u8(Opcode(m)).address_mode = "AbsX" THEN m.cpu.r_x ELSE m.cpu.r_y

\* C23: ADC, AND, CMP, EOR, LDA, LDX, LDY, ORA and SBC in AbsoluteX,
\* AbsoluteY or IndirectY mode cost their base cycles plus one when the
\* indexed address is in another page than the base address, and exactly
\* their base cycles otherwise; STA, STX and STY cost exactly their base
\* cycles in either case.
C23_PageCross ==
    [][Executes(last') /\ ~env'.panicked
         /\ from_u8(Opcode(Machine)).address_mode \in IndexedModes =>
         /\ from_u8(Opcode(Machine)).operation \in ReadOperations =>
              cpu'.cycle - cpu.cycle =
                  from_u8(Opcode(Machine)).cycles
                  + (IF (IndexBase(Machine) \div 256)
                        # (U16(IndexBase(Machine) + IndexOf(Machine)) \div 256)
                     THEN 1 ELSE 0)
         /\ from_u8(Opcode(Machine)).operation \in StoreOperations =>
              cpu'.cycle - cpu.cycle = from_u8(Opcode(Machine)).cycles]_vars

\* LDA $12F0,X with X = $20 has run in 5 cycles
C23_Witness ==
    /\ last.op = "cpu_step"
    /\ last.addr = 32776
    /\ Opcode([Machine EXCEPT !.cpu.pc = 32776]) = 189
    /\ cpu.r_x = 32
    /\ cpu.cycle = 21
    /\ cpu.pc = 32779

----------------------------------------------------------------------------
(* SpecJump: the main loop over programs that jump through a pointer in    *)
(* RAM or in PRG ROM, at the end of a page or inside one.                  *)

\* $02FF, $0200, $81FF, $8210
JumpPointers == {767, 512, 33279, 33296}

\* PRG ROM, 16 KiB.  Reset at $8000:
\*   LDA #$34 ; STA $02FF ; LDA #$83 ; STA $0200 ; LDA #$84 ; STA $0300
\*   JMP (ptr)
\* $8100: $85   $81FF: $40   $8200: $86   $8210: $50 $87   $8300: RTI
PrgJump(ptr) ==
    Place(0, <<169, 52, 141, 255, 2, 169, 131, 141, 0, 2, 169, 132, 141, 0, 3,
               108, ptr % 256, ptr \div 256>>)
    @@ Place(256, <<133>>) @@ Place(511, <<64, 134>>) @@ Place(528, <<80, 135>>)
    @@ Place(768, <<64>>) @@ Place(16378, <<0, 131, 0, 128, 0, 131>>)

JumpCarts == {Cart(PrgJump(ptr), 16384, "Vertical") : ptr \in JumpPointers}

InitJump == InitWith(JumpCarts, BOOLEAN)

SpecJump == InitJump /\ [][NextStackOps]_vars

\* the operand word of the instruction at m's pc
Pointer(m) == read_u16(m, U16(m.cpu.pc + 1)).v

\* C24: JMP indirect through a pointer whose low byte is $FF takes the low
\* byte of the target from the pointer and the high byte from the start of
\* the pointer's page; through any other pointer the high byte comes from
\* the pointer plus one.
C24_JmpIndirect ==
    [][Executes(last') /\ Opcode(Machine) = 108 /\ ~env'.panicked =>
         cpu'.pc = BusRead(Machine, Pointer(Machine)).v
                   + 256 * BusRead(Machine,
                                   IF Pointer(Machine) % 256 = 255
                                   THEN Pointer(Machine) - 255
                                   ELSE Pointer(Machine) + 1).v]_vars

\* JMP ($02FF) has gone to $8334: low byte from $02FF, high byte from $0200
C24_Witness ==
    /\ last.op = "cpu_step"
    /\ last.addr = 32783
    /\ Pointer([Machine EXCEPT !.cpu.pc = 32783]) = 767
    /\ Rd(ram, 767) = 52
    /\ Rd(ram, 512) = 131
    /\ Rd(ram, 768) = 132
    /\ cpu.pc = 33588

----------------------------------------------------------------------------
(* SpecArith: the main loop over programs that load A, set or clear the    *)
(* carry and add or subtract an immediate operand.                         *)

ArithBytes == {0, 1, 80, 127, 128, 255}

\* ADC #, SBC #
ArithOpcodes == {105, 233}

\* CLC, SEC
CarryOpcodes == {24, 56}

\* PRG ROM, 16 KiB.  Reset at $8000:   LDA #a ; CLC / SEC ; ADC #d / SBC #d
PrgArith(o, a, c, d) ==
    Place(0, <<169, a, c, o, d>>)
    @@ Place(768, <<64>>) @@ Place(16378, <<0, 131, 0, 128, 0, 131>>)

ArithCarts ==
    {Cart(PrgArith(o, a, c, d), 16384, "Vertical") :
        o \in ArithOpcodes, a \in ArithBytes, c \in CarryOpcodes, d \in ArithBytes}

InitArith == InitWith(ArithCarts, BOOLEAN)

SpecArith == InitArith /\ [][NextStackOps]_vars

\* a byte as a signed 8-bit number
Signed(b) == IF b >= 128 THEN b - 256 ELSE b

\* the carry flag of m as a number
CarryIn(m) == IF HasFlag(m.cpu.status, FlagC) THEN 1 ELSE 0

\* the immediate operand of the instruction at m's pc
Operand(m) == BusRead(m, U16(m.cpu.pc + 1)).v

\* the sum of A, the operand and the carry in m
Sum(m) == m.cpu.r_a + Operand(m) + CarryIn(m)

\* C25: ADC leaves A = (A + M + C) mod 256, C set iff A + M + C > $FF,
\* Z set iff the result is 0, N equal to bit 7 of the result, and V set
\* exactly when the signed sum of A, M and C is outside -128..127.
C25_Adc ==
    [][Executes(last') /\ Opcode(Machine) = 105 /\ ~env'.panicked =>
         /\ cpu'.r_a = Sum(Machine) % 256
         /\ HasFlag(cpu'.status, FlagC) = (Sum(Machine) > 255)
         /\ HasFlag(cpu'.status, FlagZ) = (Sum(Machine) % 256 = 0)
         /\ HasFlag(cpu'.status, FlagN) = (Sum(Machine) % 256 >= 128)
         /\ HasFlag(cpu'.status, FlagV) =
                (Signed(cpu.r_a) + Signed(Operand(Machine)) + CarryIn(Machine)
                     \notin -128..127)]_vars

\* $7F + $01 with the carry clear has given $80 with V and N set
C25_Witness ==
    /\ last.op = "cpu_step"
    /\ last.addr = 32771
    /\ BusRead(Machine, 32769).v = 127
    /\ BusRead(Machine, 32770).v = 24
    /\ BusRead(Machine, 32771).v = 105
    /\ BusRead(Machine, 32772).v = 1
    /\ cpu.r_a = 128
    /\ HasFlag(cpu.status, FlagV)
    /\ HasFlag(cpu.status, FlagN)
    /\ ~HasFlag(cpu.status, FlagC)

\* the accumulator and the C, Z, V and N flags of a machine
Arith(c) == <<c.r_a, BitAnd(c.status, FlagC + FlagZ + FlagV + FlagN)>>

\* C26: SBC with operand M leaves the accumulator and the C, Z, V and N
\* flags that ADC with operand M XOR $FF leaves from the same state.
C26_Sbc ==
    [][Executes(last') /\ Opcode(Machine) = 233 /\ ~env'.panicked =>
         Arith(cpu') = Arith(OpADC(Machine, BitXor(Operand(Machine), 255)).cpu)]_vars

\* $00 - $01 with the carry set has given $FF with C clear and N set
C26_Witness ==
    /\ last.op = "cpu_step"
    /\ last.addr = 32771
    /\ BusRead(Machine, 32769).v = 0
    /\ BusRead(Machine, 32770).v = 56
    /\ BusRead(Machine, 32771).v = 233
    /\ BusRead(Machine, 32772).v = 1
    /\ cpu.r_a = 255
    /\ HasFlag(cpu.status, FlagN)
    /\ ~HasFlag(cpu.status, FlagC)

----------------------------------------------------------------------------
(* cpu/cartridge.rs                                                        *)
(* A file image is its length and its non-zero bytes by offset.            *)

NES_TAG == <<78, 69, 83, 26>>

HEADER_LENGTH == 16

PRG_ROM_PAGE_SIZE == 16384

CHR_ROM_PAGE_SIZE == 8192

\* Result<Cartridge, String>, or the abort of an index out of range
Ok(cart) == [tag |-> "Ok", v |-> cart]

Err(msg) == [tag |-> "Err", v |-> msg]

Abort == [tag |-> "Abort", v |-> "index out of range"]

\* bytes[start..end].to_vec(), with end within the image
Slice(bytes, start, end) ==
    [i \in {j - start : j \in {k \in DOMAIN bytes.at : k >= start /\ k < end}}
       |-> bytes.at[i + start]]

\* the match on (four_screen, vertical_mirroring)
MirroringOf(flags) ==
    IF BitAnd(flags, 8) # 0 THEN "FourScreen"
    ELSE IF BitAnd(flags, 1) # 0 THEN "Vertical"
    ELSE "Horizontal"

\* the two slices and the cartridge; the mapper number is kept by the
\* cartridge and read by nothing
Sliced(bytes, mirroring, prg_rom_start, prg_rom_length, chr_rom_length) ==
    LET chr_rom_start == prg_rom_start + prg_rom_length
    IN  IF chr_rom_start > bytes.len THEN Abort
        ELSE IF chr_rom_start + chr_rom_length > bytes.len THEN Abort
        ELSE Ok([prg_rom   |-> Slice(bytes, prg_rom_start, chr_rom_start),
                 prg_len   |-> prg_rom_length,
                 chr_rom   |-> Slice(bytes, chr_rom_start,
                                     chr_rom_start + chr_rom_length),
                 mirroring |-> mirroring])

\* Cartridge::new
CartridgeNew(bytes) ==
    IF bytes.len < 4 THEN Abort
    ELSE IF <<Rd(bytes.at, 0), Rd(bytes.at, 1), Rd(bytes.at, 2), Rd(bytes.at, 3)>>
            # NES_TAG
    THEN Err("FILE IS NOT AN iNES ROM")
    ELSE IF bytes.len < 8 THEN Abort
    ELSE LET ines_version == BitAnd(Rd(bytes.at, 7) \div 4, 3)
             trainer_length == IF BitAnd(Rd(bytes.at, 6), 4) = 1 THEN 512 ELSE 0
         IN  IF ines_version = 2 THEN Err("iNES VERSION 2 IS NOT SUPPORTED")
             ELSE IF ines_version # 0 THEN Err("UNSUPPORTED iNES VERSION DETECTED")
             ELSE Sliced(bytes, MirroringOf(Rd(bytes.at, 6)),
                         HEADER_LENGTH + trainer_length,
                         Rd(bytes.at, 4) * PRG_ROM_PAGE_SIZE,
                         Rd(bytes.at, 5) * CHR_ROM_PAGE_SIZE)

----------------------------------------------------------------------------
(* SpecLoad: the host loads a file image, builds the machine from the      *)
(* cartridge and runs the main loop.                                       *)

\* first bytes of the magic: right and wrong
MagicBytes == {78, 77}

\* byte 6: mirroring bits, alone and with the trainer bit
HeaderFlags == {0, 1, 4, 5, 8}

\* byte 7: iNES versions 0, 1 and 2
HeaderVersions == {0, 4, 8}

\* a 512-byte trainer, marked at both ends
TrainerImage == Place(0, <<238>>) @@ Place(511, <<221>>)

Shifted(f, k) == [i \in {j + k : j \in DOMAIN f} |-> f[i - k]]

\* where the header says the PRG ROM starts
PrgStart(flags) == 16 + (IF BitAnd(flags, 4) # 0 THEN 512 ELSE 0)

\* the length the header announces: one PRG page and one CHR page
FullLen(flags) == PrgStart(flags) + 16384 + 8192

\* the lengths of the files: shorter than the magic, than the header, the
\* header alone, 512 bytes or one byte short, and whole
ImageLens(flags) ==
    {3, 6, 16, FullLen(flags) - 512, FullLen(flags) - 1, FullLen(flags)}

WholeImage(magic, flags, version) ==
    Place(0, <<magic, 69, 83, 26, 1, 1, flags, version>>)
    @@ (IF BitAnd(flags, 4) # 0 THEN Shifted(TrainerImage, 16) ELSE EmptyMem)
    @@ Shifted(PrgNmiLoop, PrgStart(flags))
    @@ Shifted(ChrImage, PrgStart(flags) + 16384)

ImageOf(magic, flags, version, len) ==
    [len |-> len,
     at  |-> [i \in {j \in DOMAIN WholeImage(magic, flags, version) : j < len}
                |-> WholeImage(magic, flags, version)[i]]]

Images ==
    UNION {{ImageOf(magic, flags, version, len) : len \in ImageLens(flags)} :
             magic \in MagicBytes, flags \in HeaderFlags, version \in HeaderVersions}

\* the process after a load that gave no cartridge: nothing was built
NoMachine(overflow_checks) ==
    [cpu |-> [cycle |-> 0, pc |-> 0, sp |-> 0, r_a |-> 0, r_x |-> 0, r_y |-> 0,
              status |-> 0],
     controller |-> ControllerDefault, ram |-> EmptyMem,
     cartridge |-> [prg_rom |-> EmptyMem, prg_len |-> 0, chr_rom |-> EmptyMem,
                    mirroring |-> "Horizontal"],
     ppu |-> PpuNew(EmptyMem, "Horizontal"),
     env |-> [overflow_checks |-> overflow_checks, panicked |-> TRUE]]

\* Cpu::new(Bus::new(Cartridge::load(path).unwrap()))
Built(loaded, overflow_checks) ==
    IF loaded.tag = "Ok" THEN Construct(loaded.v, overflow_checks)
    ELSE NoMachine(overflow_checks)

\* what Cartridge::new gave: "Ok", "Abort", or the message of the error
Outcome(loaded) == IF loaded.tag = "Err" THEN loaded.v ELSE loaded.tag

InitLoad ==
    \E bytes \in Images, oc \in BOOLEAN :
        /\ cpu = Built(CartridgeNew(bytes), oc).cpu
        /\ controller = Built(CartridgeNew(bytes), oc).controller
        /\ ram = Built(CartridgeNew(bytes), oc).ram
        /\ cartridge = Built(CartridgeNew(bytes), oc).cartridge
        /\ ppu = Built(CartridgeNew(bytes), oc).ppu
        /\ env = Built(CartridgeNew(bytes), oc).env
        /\ last = Did("load", bytes, Outcome(CartridgeNew(bytes)))
        /\ data_ops = 0
        /\ joypad = JoypadDefault
        /\ frame = FrameDefault

SpecLoad == InitLoad /\ [][NextStackOps]_vars

\* offsets probed in the PRG ROM and in the CHR ROM
PrgProbes == {0, 1, 5, 16, 16378, 16380, 16381, 16383}

ChrProbes == {0, 1, 511, 512, 4096, 8191}

\* C27: with bit 2 of header byte 6 set the loader takes the PRG ROM from
\* offset 16 + 512 of the file and the CHR ROM right after it; with the
\* bit clear the PRG ROM starts at offset 16.
C27_Trainer ==
    last.op = "load" /\ last.value = "Ok" =>
        /\ \A i \in PrgProbes :
               Rd(cartridge.prg_rom, i)
                   = Rd(last.addr.at, PrgStart(Rd(last.addr.at, 6)) + i)
        /\ \A i \in ChrProbes :
               Rd(cartridge.chr_rom, i)
                   = Rd(last.addr.at,
                        PrgStart(Rd(last.addr.at, 6)) + cartridge.prg_len + i)

\* the part of C27 that the code follows: without the trainer bit
C27_NoTrainer ==
    last.op = "load" /\ last.value = "Ok" /\ BitAnd(Rd(last.addr.at, 6), 4) = 0 =>
        /\ \A i \in PrgProbes :
               Rd(cartridge.prg_rom, i) = Rd(last.addr.at, 16 + i)
        /\ \A i \in ChrProbes :
               Rd(cartridge.chr_rom, i)
                   = Rd(last.addr.at, 16 + cartridge.prg_len + i)

\* the image is malformed: wrong magic, a version other than 0, or shorter
\* than its header announces
Malformed(bytes) ==
    \/ bytes.len < 16
    \/ <<Rd(bytes.at, 0), Rd(bytes.at, 1), Rd(bytes.at, 2), Rd(bytes.at, 3)>> # NES_TAG
    \/ BitAnd(Rd(bytes.at, 7) \div 4, 3) # 0
    \/ bytes.len < PrgStart(Rd(bytes.at, 6)) + Rd(bytes.at, 4) * 16384
                   + Rd(bytes.at, 5) * 8192

\* C28: loading a malformed image gives an error value: the loader neither
\* aborts nor produces a Cartridge.
C28_LoadErrors ==
    last.op = "load" /\ Malformed(last.addr) => last.value \notin {"Ok", "Abort"}

\* the part of C28 that the code follows: wrong magic in a file of four
\* bytes or more, and a version other than 0 in a file of eight or more
C28_MagicAndVersion ==
    /\ last.op = "load" /\ last.addr.len >= 4 /\ Rd(last.addr.at, 0) # 78 =>
           last.value = "FILE IS NOT AN iNES ROM"
    /\ last.op = "load" /\ last.addr.len >= 8 /\ Rd(last.addr.at, 0) = 78
           /\ Rd(last.addr.at, 7) # 0 =>
           last.value \in {"iNES VERSION 2 IS NOT SUPPORTED",
                           "UNSUPPORTED iNES VERSION DETECTED"}

----------------------------------------------------------------------------
(* cpu/cpu.rs: trace_instruction and trace.  Every byte shown is read      *)
(* through Bus::read; the result here is the machine after the reads and   *)
(* the address of the next instruction.                                    *)

\* instruction_bytes[1] and [2], then the operand word read once more
Operands2(m, addr) ==
    read_u16(BusRead(BusRead(m, U16(addr + 1)).m, U16(addr + 2)).m, U16(addr + 1))

\* the value shown for a zero-page operand b
TraceZp(b, index) == BusRead(b.m, U8(b.v + index))

\* the value shown at the address w, indexed
TraceValue(w, index) == BusRead(w.m, U16(w.v + index))

\* the word shown for the pointer w of JMP (ind)
TraceInd(w) ==
    BusRead(BusRead(w.m, w.v).m,
            IF BitAnd(w.v, 255) = 255 THEN BitAnd(w.v, 65280) ELSE w.v + 1)

\* the machine after the reads r, and addr plus the instruction's length
Traced(r, length, addr) == Ret(r.m, U16(addr + length))

TraceOperand(m, instruction, addr) ==
    LET mode == instruction.address_mode
        next == U16(addr + 1)
    IN  CASE mode = "Imm" -> Traced(BusRead(m, next), 2, addr)
          [] mode = "Zp" -> Traced(TraceZp(BusRead(m, next), 0), 2, addr)
          [] mode = "ZpX" -> Traced(TraceZp(BusRead(m, next), m.cpu.r_x), 2, addr)
          [] mode = "ZpY" -> Traced(TraceZp(BusRead(m, next), m.cpu.r_y), 2, addr)
          [] mode = "Abs" ->
               IF instruction.operation \in {"JMP", "JSR"}
               THEN Traced(Operands2(m, addr), 3, addr)
               ELSE Traced(TraceValue(Operands2(m, addr), 0), 3, addr)
          [] mode = "AbsX" -> Traced(TraceValue(Operands2(m, addr), m.cpu.r_x), 3, addr)
          [] mode = "AbsY" -> Traced(TraceValue(Operands2(m, addr), m.cpu.r_y), 3, addr)
          [] mode = "Ind" -> Traced(TraceInd(Operands2(m, addr)), 3, addr)
          [] mode = "IndX" ->
               Traced(TraceValue(ZeroPagePointer(BusRead(m, next), m.cpu.r_x), 0),
                      2, addr)
          [] mode = "IndY" ->
               Traced(TraceValue(ZeroPagePointer(BusRead(m, next), 0), m.cpu.r_y),
                      2, addr)
          [] mode = "Rel" -> Traced(BusRead(BusRead(m, next).m, next), 2, addr)
          [] OTHER -> Ret(m, next)

trace_instruction(m, addr) ==
    TraceOperand(BusRead(m, addr).m, from_u8(BusRead(m, addr).v), addr)

\* Cpu::trace: the instruction at pc, then the registers, formatted
trace(m) == trace_instruction(m, m.cpu.pc)

\* the debug window calls Cpu::trace
TraceOp ==
    /\ ~env.panicked
    /\ data_ops < MaxData
    /\ data_ops' = data_ops + 1
    /\ Become(trace(Machine).m)
    /\ last' = Did("trace", cpu.pc, trace(Machine).v)

----------------------------------------------------------------------------
(* SpecTrace: the main loop and the debug window over programs of one      *)
(* instruction in each addressing mode, some with their operand in the PPU *)
(* registers, while the host writes the PPU address.                       *)

\* LDA $2002 / $2007 / $3FFA / $0200, LDA $2007,X, LDA $2002,Y, JMP $2002,
\* JMP ($2002), LDA $10, LDA $10,X, LDX $10,Y, LDA ($10,X), LDA ($10),Y,
\* LDA #$10, BNE +2, NOP, ASL A
TracedInstructions ==
    {<<173, 2, 32>>, <<173, 7, 32>>, <<173, 250, 63>>, <<173, 0, 2>>,
     <<189, 7, 32>>, <<185, 2, 32>>, <<76, 2, 32>>, <<108, 2, 32>>,
     <<165, 16>>, <<181, 16>>, <<182, 16>>, <<161, 16>>, <<177, 16>>,
     <<169, 16>>, <<208, 2>>, <<234>>, <<10>>}

\* PRG ROM, 16 KiB.  Reset at $8000: the instruction
PrgTrace(instruction) ==
    Place(0, instruction)
    @@ Place(768, <<64>>) @@ Place(16378, <<0, 131, 0, 128, 0, 131>>)

TraceCarts == {Cart(PrgTrace(i), 16384, "Vertical") : i \in TracedInstructions}

InitTrace == InitWith(TraceCarts, BOOLEAN)

NextTrace ==
    \/ TraceOp
    \/ \E kind \in InjectKinds : CpuStep(kind)
    \/ BusWriteOp(PPU_MAP_ADDR, 33)

SpecTrace == InitTrace /\ [][NextTrace]_vars

\* C29: Cpu::trace changes neither the CPU registers nor the PPU's address
\* register and its latch, scroll latch, data buffer and VBLANK_STARTED,
\* whatever instruction it traces.
C29_TraceFrame ==
    [][last'.op = "trace" =>
         /\ cpu' = cpu
         /\ ppu'.addr = ppu.addr
         /\ ppu'.scroll.latch = ppu.scroll.latch
         /\ ppu'.data_buffer = ppu.data_buffer
         /\ HasFlag(ppu'.status, VBLANK_STARTED) = HasFlag(ppu.status, VBLANK_STARTED)]_vars

\* the part of C29 that the code follows: the CPU registers
C29_CpuRegisters == [][last'.op = "trace" => cpu' = cpu]_vars

----------------------------------------------------------------------------
(* SpecClock: the host drives the PPU clock alone, by steps that reach     *)
(* every dot of every scanline.                                            *)

ClockCycles == {0, 1, 85, 255}

NextClock == \E n \in ClockCycles : PpuStep(n)

SpecClock == InitTiming /\ [][NextClock]_vars

\* C30: after any sequence of Ppu::step(n) calls the dot counter is in
\* 0..340 and the scanline counter in 0..261, and one call advances the
\* scanline by at most one (from 261 to 0 at the end of the frame).
C30_Counters ==
    /\ [](ppu.cycle \in 0..340 /\ ppu.scanline \in 0..261)
    /\ [][last'.op = "ppu_step" =>
            \/ ppu'.scanline = ppu.scanline
            \/ ppu'.scanline = (ppu.scanline + 1) % 262]_vars

\* a step of 255 dots from dot 340 of scanline 240 has entered scanline 241
C30_Witness ==
    /\ last.op = "ppu_step"
    /\ ppu.scanline = 241
    /\ ppu.cycle = 254

----------------------------------------------------------------------------
(* SpecFlags: the main loop over programs that pull a chosen byte into the *)
(* status with PLP, take a BRK and return with RTI from a chosen byte.     *)

StatusBytes == {0, 16, 32, 48, 207, 255}

\* PRG ROM, 16 KiB.  Reset at $8000:
\*   LDA #a ; PHA ; PLP ; BRK ; NOP ; NOP      IRQ at $8020: PLA ; LDA #b ; PHA ; RTI
PrgFlags(a, b) ==
    Place(0, <<169, a, 72, 40, 0, 234, 234>>) @@ Place(32, <<104, 169, b, 72, 64>>)
    @@ Place(16378, <<32, 128, 0, 128, 32, 128>>)

FlagsCarts == {Cart(PrgFlags(a, b), 16384, "Vertical") : a \in StatusBytes, b \in StatusBytes}

InitFlags == InitWith(FlagsCarts, BOOLEAN)

SpecFlags == InitFlags /\ [][NextStackOps]_vars

\* C31: in every state reached from reset by executing instructions, PLP,
\* RTI and BRK among them, the live status has U set and B clear.
C31_LiveStatus ==
    ~env.panicked => HasFlag(cpu.status, FlagU) /\ ~HasFlag(cpu.status, FlagB)

\* RTI at $8024 has popped $FF into the status
C31_Witness ==
    /\ last.op = "cpu_step"
    /\ last.addr = 32804
    /\ Rd(ram, 256 + ((cpu.sp + 254) % 256)) = 255
    /\ cpu.status = 239

----------------------------------------------------------------------------
(* SpecRmw: the main loop over programs that run one read-modify-write     *)
(* instruction on $12F0,X.                                                 *)

\* ASL, ROL, LSR, ROR, DEC and INC in AbsoluteX mode
RmwOpcodes == {30, 62, 94, 126, 222, 254}

\* PRG ROM, 16 KiB.  Reset at $8000:   LDX #x ; o $12F0,X
PrgRmw(o, x) ==
    Place(0, <<162, x, o, 240, 18>>)
    @@ Place(768, <<64>>) @@ Place(16378, <<0, 131, 0, 128, 0, 131>>)

RmwCarts == {Cart(PrgRmw(o, x), 16384, "Vertical") : o \in RmwOpcodes, x \in IndexBytes}

InitRmw == InitWith(RmwCarts, BOOLEAN)

SpecRmw == InitRmw /\ [][NextStackOps]_vars

\* C32: ASL, LSR, ROL, ROR, INC and DEC in AbsoluteX mode cost exactly 7
\* cycles, whether or not base + X is in another page than base.
C32_RmwCycles ==
    [][Executes(last') /\ Opcode(Machine) \in RmwOpcodes /\ ~env'.panicked =>
         cpu'.cycle - cpu.cycle = 7]_vars

\* the part of C32 that the code follows: 7 cycles within the page
C32_SamePage ==
    [][Executes(last') /\ Opcode(Machine) \in RmwOpcodes /\ ~env'.panicked
         /\ ~page_cross(IndexBase(Machine), U16(IndexBase(Machine) + cpu.r_x)) =>
         cpu'.cycle - cpu.cycle = 7]_vars

----------------------------------------------------------------------------
(* BRK, over the programs of SpecStackOps: BRK at $800C with the IRQ       *)
(* vector at $8020, where an RTI stands.                                   *)

\* the byte on the stack page at sp minus down
Stacked(mem, sp, down) == Rd(mem, 256 + ((sp + 256 - down) % 256))

\* C33: BRK at p pushes p + 2, high byte first, then the status with B and
\* U set, sets I, loads pc from the word at $FFFE and costs 7 cycles; the
\* RTI that follows resumes at p + 2.
C33_Brk ==
    [][Executes(last') /\ Opcode(Machine) = 0 /\ ~env'.panicked =>
         /\ Stacked(ram', cpu.sp, 0) = U16(cpu.pc + 2) \div 256
         /\ Stacked(ram', cpu.sp, 1) = U16(cpu.pc + 2) % 256
         /\ Stacked(ram', cpu.sp, 2) = BitOr(cpu.status, FlagB + FlagU)
         /\ HasFlag(cpu'.status, FlagI)
         /\ cpu'.pc = read_u16(Machine, 65534).v
         /\ cpu'.cycle = cpu.cycle + 7
         /\ Opcode(Machine') = 64 => Then(Machine').cpu.pc = U16(cpu.pc + 2)]_vars

\* the part of C33 that the code follows, with the return address it
\* pushes: p + 1
C33_BrkPlusOne ==
    [][Executes(last') /\ Opcode(Machine) = 0 /\ ~env'.panicked =>
         /\ Stacked(ram', cpu.sp, 0) = U16(cpu.pc + 1) \div 256
         /\ Stacked(ram', cpu.sp, 1) = U16(cpu.pc + 1) % 256
         /\ Stacked(ram', cpu.sp, 2) = BitOr(cpu.status, FlagB + FlagU)
         /\ HasFlag(cpu'.status, FlagI)
         /\ cpu'.pc = read_u16(Machine, 65534).v
         /\ cpu'.cycle = cpu.cycle + 7
         /\ Opcode(Machine') = 64 => Then(Machine').cpu.pc = U16(cpu.pc + 1)]_vars

----------------------------------------------------------------------------
(* SpecUnknown: the main loop over programs that begin with a byte the     *)
(* decode table does not list.                                             *)

UnlistedOpcodes == (0..255) \ ListedOpcodes

\* PRG ROM, 16 KiB.  Reset at $8000: the byte o, then $07 $20 and BRKs
PrgUnknown(o) ==
    Place(0, <<o, 7, 32>>)
    @@ Place(768, <<64>>) @@ Place(16378, <<0, 131, 0, 128, 0, 131>>)

UnknownCarts == {Cart(PrgUnknown(o), 16384, "Vertical") : o \in UnlistedOpcodes}

InitUnknown == InitWith(UnknownCarts, BOOLEAN)

SpecUnknown == InitUnknown /\ [][NextStackOps]_vars

\* C34: Cpu::step on a byte that the decode table does not list advances
\* pc by one, adds no cycle, changes no register, flag or memory byte and
\* does not abort.
C34_UnknownOpcode ==
    [][Executes(last') /\ Opcode(Machine) \in UnlistedOpcodes =>
         /\ ~env'.panicked
         /\ cpu' = [cpu EXCEPT !.pc = U16(cpu.pc + 1)]
         /\ cpu'.cycle = cpu.cycle
         /\ ram' = ram
         /\ ppu' = ppu
         /\ cartridge' = cartridge]_vars

\* the byte $FF at $8000 has been stepped over in no cycle
C34_Witness ==
    /\ last.op = "cpu_step"
    /\ last.value # "pause"
    /\ last.addr = 32768
    /\ Opcode([Machine EXCEPT !.cpu.pc = 32768]) = 255
    /\ cpu.pc = 32769
    /\ cpu.cycle = 7

----------------------------------------------------------------------------
(* SpecJoypad: the host presses and releases buttons and the program       *)
(* writes and reads the joypad.  The last operation carries, as its        *)
(* argument, where the strobe stands ("idle" before the first pulse,       *)
(* "high", "low" after a pulse) and the reads made since the pulse.        *)

\* the reads counted after a pulse
MaxReads == 10

JoypadData == {0, 1, 2}

Hist(l) == IF l.op = "new" THEN [phase |-> "idle", reads |-> 0] ELSE l.addr

Strobed(h, data) ==
    IF BitAnd(data, 1) = 1 THEN [phase |-> "high", reads |-> 0]
    ELSE IF h.phase = "high" THEN [phase |-> "low", reads |-> 0]
    ELSE h

ReadAfter(h) ==
    IF h.phase = "low" /\ h.reads < MaxReads THEN [h EXCEPT !.reads = h.reads + 1]
    ELSE h

\* the program calls Joypad::write(data)
JoypadWriteOp(data) ==
    /\ joypad' = JoypadWrite(joypad, data)
    /\ last' = Did("joypad_write", Strobed(Hist(last), data), data)
    /\ UNCHANGED <<cpu, controller, ram, cartridge, ppu, env, data_ops, frame>>

\* the program calls Joypad::read()
JoypadReadOp ==
    /\ joypad' = JoypadRead(joypad).j
    /\ last' = Did("joypad_read", ReadAfter(Hist(last)), JoypadRead(joypad).v)
    /\ UNCHANGED <<cpu, controller, ram, cartridge, ppu, env, data_ops, frame>>

\* the host's key events: buttons.insert(key), buttons.remove(key)
PressOp(key) ==
    /\ joypad' = [joypad EXCEPT !.buttons = BitOr(joypad.buttons, key)]
    /\ last' = Did("press", Hist(last), key)
    /\ UNCHANGED <<cpu, controller, ram, cartridge, ppu, env, data_ops, frame>>

ReleaseOp(key) ==
    /\ joypad' = [joypad EXCEPT !.buttons = joypad.buttons - BitAnd(joypad.buttons, key)]
    /\ last' = Did("release", Hist(last), key)
    /\ UNCHANGED <<cpu, controller, ram, cartridge, ppu, env, data_ops, frame>>

NextJoypad ==
    \/ \E data \in JoypadData : JoypadWriteOp(data)
    \/ JoypadReadOp
    \/ \E k \in 1..8 : PressOp(Buttons[k])
    \/ \E k \in 1..8 : ReleaseOp(Buttons[k])

SpecJoypad == InitTiming /\ [][NextJoypad]_vars

\* 1 when the k-th button, counted from 0, is pressed
Pressed(j, k) == IF BitAnd(j.buttons, Buttons[k + 1]) # 0 THEN 1 ELSE 0

\* C35: button_index stays in 0..8; after a strobe pulse the first eight
\* reads return the state of A, B, Select, Start, Up, Down, Left, Right in
\* that order and every later read returns 1; while the strobe is high a
\* read returns the state of A and leaves the index where it is.
C35_Joypad ==
    /\ [](joypad.button_index \in 0..8)
    /\ [][last'.op = "joypad_read" =>
            /\ Hist(last).phase = "low" /\ Hist(last).reads < 8 =>
                   last'.value = Pressed(joypad, Hist(last).reads)
            /\ Hist(last).phase = "low" /\ Hist(last).reads >= 8 =>
                   last'.value = 1
            /\ Hist(last).phase = "high" =>
                   /\ last'.value = Pressed(joypad, 0)
                   /\ joypad'.button_index = joypad.button_index]_vars

\* the eighth read after a pulse has returned 0 with every button but
\* Right pressed
C35_Witness ==
    /\ last.op = "joypad_read"
    /\ last.addr = [phase |-> "low", reads |-> 8]
    /\ joypad.buttons = 127
    /\ last.value = 0

----------------------------------------------------------------------------
(* $2000 writes, over SpecTiming: the PPU clock runs and the host writes   *)
(* $2000 with GENERATE_NMI set or clear and reads $2002.                   *)

\* C36: a write to $2000 that raises GENERATE_NMI while VBLANK_STARTED is
\* set latches an NMI; any other write to $2000 leaves the latch as it is.
C36_CtrlNmi ==
    [][last'.op = "write" /\ last'.addr = PPU_CTRL /\ ~env'.panicked =>
         ppu'.nmi_interrupt =
             IF /\ ~HasFlag(ppu.ctrl, GENERATE_NMI)
                /\ HasFlag(last'.value, GENERATE_NMI)
                /\ HasFlag(ppu.status, VBLANK_STARTED)
             THEN Some(1)
             ELSE ppu.nmi_interrupt]_vars

\* GENERATE_NMI has been written during VBlank, and the NMI is latched
C36_Witness ==
    /\ last.op = "write"
    /\ last.addr = PPU_CTRL
    /\ last.value = 128
    /\ HasFlag(ppu.status, VBLANK_STARTED)
    /\ ppu.scanline = 250
    /\ ppu.nmi_interrupt = Some(1)

----------------------------------------------------------------------------
(* The nametable index, over SpecMirror: cartridges of the three           *)
(* mirrorings, $2006 writes and $2007 reads and writes.                    *)

\* C37: under each of the three mirrorings, for a PPU address in
\* $2000-$2FFF, the index that mirror_vram_addr computes for a $2007 read
\* or write is below 2048, and the access does not abort.
C37_VramIndex ==
    [][DataPortOp(last') /\ AddrGet(ppu.addr) \in 8192..12287 =>
         /\ mirror_vram_addr(ppu.mirroring, AddrGet(ppu.addr)).v \in 0..(VramLen - 1)
         /\ ~env'.panicked]_vars

\* the part of C37 that the code follows: Vertical and Horizontal
C37_TwoTables ==
    [][DataPortOp(last') /\ AddrGet(ppu.addr) \in 8192..12287
         /\ ppu.mirroring # "FourScreen" =>
         /\ mirror_vram_addr(ppu.mirroring, AddrGet(ppu.addr)).v \in 0..(VramLen - 1)
         /\ ~env'.panicked]_vars

----------------------------------------------------------------------------
(* SpecPause: the host calls Cpu::step with a callback that may pause,     *)
(* resume, or toggle single stepping.                                      *)

PauseKinds == InjectKinds \cup {"step"}

NextPause == \E kind \in PauseKinds : CpuStep(kind)

SpecPause == InitStackOps /\ [][NextPause]_vars

\* the machine Cpu::step sees once the callback of this call has run
Injected(m, l) == Inject(m, l.value)

\* C38: a call to Cpu::step whose callback leaves pause set executes no
\* instruction (registers, cycle counter and memory keep their values), and
\* a call made while step_mode is set ends with pause set.
C38_PauseAndStep ==
    [][last'.op = "cpu_step" =>
         /\ Injected(Machine, last').controller.pause =>
                /\ cpu' = cpu
                /\ ram' = ram
                /\ ppu' = ppu
                /\ cartridge' = cartridge
                /\ ~env'.panicked
         /\ Injected(Machine, last').controller.step_mode => controller'.pause
         /\ controller'.step_mode = Injected(Machine, last').controller.step_mode]_vars

\* single stepping executed an instruction and paused; the next call, with
\* a callback that changes nothing, executed none
C38_Witness ==
    /\ last.op = "cpu_step"
    /\ last.value = "none"
    /\ controller.step_mode
    /\ controller.pause
    /\ cpu.cycle > 7

----------------------------------------------------------------------------
(* SpecStore: one store per program, to RAM, to the PPU registers and      *)
(* their mirrors, after three writes of $2006 (address $2105, the latch    *)
(* waiting for the low byte).                                              *)

\* STY, STA and STX absolute, STA absolute,Y and STA absolute,X
StoreOpcodes == {140, 141, 142, 153, 157}

\* the operand words: $0010, $2007, $200A, $3FFD
StoreBases == {16, 8199, 8202, 16381}

\* PRG ROM, 16 KiB.  Reset at $8000:
\*   LDA #$21 ; STA $2006 ; LDA #$05 ; STA $2006 ; LDA #$21 ; STA $2006
\*   LDX #2 ; LDY #3 ; LDA #$AB ; o base          IRQ at $8300: RTI
PrgStore(o, base) ==
    Place(0, <<169, 33, 141, 6, 32, 169, 5, 141, 6, 32, 169, 33, 141, 6, 32,
               162, 2, 160, 3, 169, 171, o, base % 256, base \div 256>>)
    @@ Place(768, <<64>>) @@ Place(16378, <<0, 131, 0, 128, 0, 131>>)

StoreCarts == {Cart(PrgStore(o, b), 16384, "Vertical") : o \in StoreOpcodes, b \in StoreBases}

InitStore == InitWith(StoreCarts, BOOLEAN)

SpecStore == InitStore /\ [][NextStackOps]_vars

\* the effective address of the store at pc in m
StoreAddress(m) ==
    LET mode == from_u8(Opcode(m)).address_mode
    IN  U16(Pointer(m) + (CASE mode = "AbsX" -> m.cpu.r_x
                            [] mode = "AbsY" -> m.cpu.r_y
                            [] OTHER -> 0))

\* the register it stores
StoreValue(m) ==
    LET op == from_u8(Opcode(m)).operation
    IN  CASE op = "STX" -> m.cpu.r_x
          [] op = "STY" -> m.cpu.r_y
          [] OTHER -> m.cpu.r_a

\* the PPU register behind the address a, 0 when there is none
Register(a) == IF a \in PPU_CTRL..PPU_REGISTER_END THEN BitAnd(a, 8199) ELSE 0

\* C39: STA, STX and STY leave the memory, the PPU and the host as one bus
\* write of the register to the effective address leaves them, with no bus
\* read of that address: a store to $2007 or a mirror of it advances the PPU
\* address once and leaves the read buffer alone, and a store to a mirror of
\* $2002 leaves the PPU, its latches included, as it was.
C39_StoreNoRead ==
    [][Executes(last') /\ Opcode(Machine) \in StoreOpcodes =>
         /\ ppu' = BusWrite(Machine, StoreAddress(Machine), StoreValue(Machine)).ppu
         /\ ram' = BusWrite(Machine, StoreAddress(Machine), StoreValue(Machine)).ram
         /\ env' = BusWrite(Machine, StoreAddress(Machine), StoreValue(Machine)).env
         /\ Register(StoreAddress(Machine)) = PPU_MAP_DATA =>
                /\ ppu'.addr = AddrIncrement(ppu.addr, vram_addr_increment(ppu.ctrl))
                /\ ppu'.data_buffer = ppu.data_buffer
         /\ Register(StoreAddress(Machine)) = PPU_STATUS =>
                /\ ppu' = ppu
                /\ ~env'.panicked
         /\ cpu'.pc = U16(cpu.pc + 3)
         /\ <<cpu'.r_a, cpu'.r_x, cpu'.r_y, cpu'.sp, cpu'.status>>
              = <<cpu.r_a, cpu.r_x, cpu.r_y, cpu.sp, cpu.status>>]_vars

\* STA $3FFD,X has stored $AB through the last mirror of $2007: the PPU
\* address went from $2105 to $2106 and the byte is in the name table
C39_Witness ==
    /\ last.op = "cpu_step"
    /\ last.addr = 32789
    /\ cpu.pc = 32792
    /\ Opcode([Machine EXCEPT !.cpu.pc = 32789]) = 157
    /\ Pointer([Machine EXCEPT !.cpu.pc = 32789]) = 16381
    /\ AddrGet(ppu.addr) = 8454
    /\ ~ppu.addr.high_byte
    /\ Rd(ppu.vram, mirror_vram_addr(ppu.mirroring, 8453).v) = 171
    /\ ppu.data_buffer = 0

\* STA $200A has stored to a mirror of $2002 and the address latch still
\* waits for the low byte
C39_WitnessStatus ==
    /\ last.op = "cpu_step"
    /\ last.addr = 32789
    /\ cpu.pc = 32792
    /\ Opcode([Machine EXCEPT !.cpu.pc = 32789]) = 141
    /\ Pointer([Machine EXCEPT !.cpu.pc = 32789]) = 8202
    /\ ~ppu.addr.high_byte
    /\ ~env.panicked

----------------------------------------------------------------------------
(* SpecFrame: the renderer sets pixels, some past the right and the bottom *)
(* edge (sprite position up to 255 plus an offset up to 7).                *)

PixelXs == {0, 255, 256, 262}

PixelYs == {0, 239, 240, 262}

PixelColours == {<<17, 34, 51>>, <<0, 0, 255>>}

\* the colour rgb as one number, $RRGGBB
Rgb(rgb) == rgb[1] * 65536 + rgb[2] * 256 + rgb[3]

\* the colour, the column and the row of the call l
Colour(l) == <<l.value \div 65536, (l.value \div 256) % 256, l.value % 256>>

Column(l) == l.addr % 65536

Row(l) == l.addr \div 65536

\* frame.set_pixel(x, y, rgb)
SetPixelOp(x, y, rgb) ==
    /\ frame' = set_pixel(frame, x, y, rgb)
    /\ last' = Did("set_pixel", y * 65536 + x, Rgb(rgb))
    /\ UNCHANGED <<cpu, controller, ram, cartridge, ppu, env, data_ops, joypad>>

NextFrame == \E x \in PixelXs, y \in PixelYs, rgb \in PixelColours : SetPixelOp(x, y, rgb)

SpecFrame == InitTiming /\ [][NextFrame]_vars

\* the three bytes of pixel (x, y) in data
Pixel(data, x, y) ==
    <<Rd(data, (y * WIDTH + x) * 3), Rd(data, (y * WIDTH + x) * 3 + 1),
      Rd(data, (y * WIDTH + x) * 3 + 2)>>

\* data with pixel (x, y) set to rgb
WithPixel(data, x, y, rgb) ==
    Wr(Wr(Wr(data, (y * WIDTH + x) * 3, rgb[1]), (y * WIDTH + x) * 3 + 1, rgb[2]),
       (y * WIDTH + x) * 3 + 2, rgb[3])

\* C40: set_pixel(x, y, rgb) changes exactly the three bytes of pixel
\* (x, y) when x < 256 and y < 240, and changes nothing otherwise.
C40_SetPixel ==
    [][last'.op = "set_pixel" =>
         IF Column(last') < WIDTH /\ Row(last') < HEIGHT
         THEN frame' = WithPixel(frame, Column(last'), Row(last'), Colour(last'))
         ELSE frame' = frame]_vars

\* the part of C40 that the code follows: a pixel within the frame is set,
\* and nothing changes below the bottom edge or right of the last row
C40_WithinOrBelow ==
    [][last'.op = "set_pixel" =>
         /\ Column(last') < WIDTH /\ Row(last') < HEIGHT =>
                /\ frame' = WithPixel(frame, Column(last'), Row(last'), Colour(last'))
                /\ Pixel(frame', Column(last'), Row(last')) = Colour(last')
         /\ Row(last') >= HEIGHT => frame' = frame
         /\ Column(last') >= WIDTH /\ Row(last') = HEIGHT - 1 => frame' = frame]_vars


=============================================================================
